---- MODULE Spec2Model ----
(***************************************************************************)
(* Model of the prox browsing proxy (server/proxyMiddleware.ts,            *)
(* server/routes.ts, server/storage.ts).                                   *)
(*                                                                         *)
(* Text is modelled as TLA+ strings, read character by character with      *)
(* Ch/Sub.  The modelled character set is printable ASCII without the      *)
(* backtick (TLA+ has no literal for it), "@", "[", "]" and non-ASCII      *)
(* text; space, tab and newline stand for the whitespace class.            *)
(***************************************************************************)
EXTENDS Integers, Sequences, FiniteSets, TLC

(***************************************************************************)
(* String helpers (JavaScript String methods used by the handlers).        *)
(***************************************************************************)
Ch(s, i) == IF i >= 1 /\ i <= Len(s) THEN SubSeq(s, i, i) ELSE ""

Sub(s, i, j) == IF i > j \/ i > Len(s) \/ j < 1 THEN ""
                ELSE SubSeq(s, IF i < 1 THEN 1 ELSE i, IF j > Len(s) THEN Len(s) ELSE j)

From(s, i) == Sub(s, i, Len(s))

StartsWithAt(s, p, i) == Sub(s, i, i + Len(p) - 1) = p

StartsWith(s, p) == StartsWithAt(s, p, 1)

MinOf(S) == CHOOSE k \in S : \A m \in S : k <= m

\* first position >= i of s holding a character of the set cs, 0 when none
IndexFrom(s, cs, i) ==
    LET hits == { k \in i..Len(s) : Ch(s, k) \in cs } IN
    IF hits = {} THEN 0 ELSE MinOf(hits)

\* last position of the maximal run of characters of cs that starts at i
\* (i - 1 when the run is empty)
SpanEnd(s, cs, i) ==
    LET stops == { k \in i..Len(s) : Ch(s, k) \notin cs } IN
    IF stops = {} THEN (IF Len(s) < i THEN i - 1 ELSE Len(s)) ELSE MinOf(stops) - 1

LowerAlphabet == "abcdefghijklmnopqrstuvwxyz"
UpperAlphabet == "ABCDEFGHIJKLMNOPQRSTUVWXYZ"
DigitChars == "0123456789"

CharsOf(s) == { Ch(s, i) : i \in 1..Len(s) }

LowerAlpha == CharsOf(LowerAlphabet)
UpperAlpha == CharsOf(UpperAlphabet)
Alpha == LowerAlpha \cup UpperAlpha
Digit == CharsOf(DigitChars)
AlphaNum == Alpha \cup Digit

\* the regular-expression class \s
WhiteSpace == {" ", "\t", "\n", "\r", "\f"}

\* the regular-expression class ['"`] (the backtick is outside the model)
QuoteChars == {"\"", "'"}

ToLowerCh(c) ==
    IF c \in UpperAlpha
    THEN LET i == CHOOSE k \in 1..26 : Ch(UpperAlphabet, k) = c IN Ch(LowerAlphabet, i)
    ELSE c

RECURSIVE ToLower(_)
ToLower(s) ==
    IF Len(s) <= 1 THEN ToLowerCh(s)
    ELSE ToLower(Sub(s, 1, Len(s) \div 2)) \o ToLower(From(s, Len(s) \div 2 + 1))

(***************************************************************************)
(* Percent-encoding.  PctTable lists, for the characters of the model that *)
(* some encoder escapes, their %XX form (UTF-8, upper-case hex).           *)
(***************************************************************************)
PctTable ==
    { <<" ", "%20">>, <<"\"", "%22">>, <<"#", "%23">>, <<"$", "%24">>,
      <<"%", "%25">>, <<"&", "%26">>, <<"'", "%27">>, <<"(", "%28">>,
      <<")", "%29">>, <<"+", "%2B">>, <<",", "%2C">>, <<"/", "%2F">>,
      <<":", "%3A">>, <<";", "%3B">>, <<"<", "%3C">>, <<"=", "%3D">>,
      <<">", "%3E">>, <<"?", "%3F">>, <<"\\", "%5C">>, <<"^", "%5E">>,
      <<"{", "%7B">>, <<"|", "%7C">>, <<"}", "%7D">>, <<"~", "%7E">>,
      <<"!", "%21">>, <<"*", "%2A">>, <<"\n", "%0A">>, <<"\t", "%09">> }

Pct(c) == IF \E e \in PctTable : e[1] = c
          THEN (CHOOSE e \in PctTable : e[1] = c)[2]
          ELSE c

HexChars == Digit \cup CharsOf("abcdefABCDEF")

ToUpperHex(c) ==
    IF c \in CharsOf("abcdef")
    THEN LET i == CHOOSE k \in 1..26 : Ch(LowerAlphabet, k) = c IN Ch(UpperAlphabet, i)
    ELSE c

\* %XY at position i of s is a well-formed escape
IsEscapeAt(s, i) ==
    Ch(s, i) = "%" /\ Ch(s, i + 1) \in HexChars /\ Ch(s, i + 2) \in HexChars

\* the character a well-formed escape stands for; escapes of characters
\* outside PctTable (letters, digits, non-ASCII bytes) are outside the model
\* and are kept as text
UnPct(esc) ==
    LET up == "%" \o ToUpperHex(Ch(esc, 2)) \o ToUpperHex(Ch(esc, 3)) IN
    IF \E e \in PctTable : e[2] = up
    THEN (CHOOSE e \in PctTable : e[2] = up)[1]
    ELSE esc

RECURSIVE EncodeWith(_, _)
\* percent-encode every character of s that is not in the set keep
EncodeWith(s, keep) ==
    IF Len(s) <= 1 THEN (IF s \in keep THEN s ELSE Pct(s))
    ELSE EncodeWith(Sub(s, 1, Len(s) \div 2), keep)
         \o EncodeWith(From(s, Len(s) \div 2 + 1), keep)

\* encodeURIComponent: everything but A-Z a-z 0-9 - _ . ! ~ * ' ( ) is escaped
UriUnreserved == AlphaNum \cup {"-", "_", ".", "!", "~", "*", "'", "(", ")"}

encodeURIComponent(s) == EncodeWith(s, UriUnreserved)


RECURSIVE EscapeChars(_, _)
\* percent-encode the characters of s that are in the set esc
EscapeChars(s, esc) ==
    IF Len(s) <= 1 THEN (IF s \in esc THEN Pct(s) ELSE s)
    ELSE EscapeChars(Sub(s, 1, Len(s) \div 2), esc)
         \o EscapeChars(From(s, Len(s) \div 2 + 1), esc)

RECURSIVE RemoveChars(_, _)
RemoveChars(s, cs) ==
    IF Len(s) <= 1 THEN (IF s \in cs THEN "" ELSE s)
    ELSE RemoveChars(Sub(s, 1, Len(s) \div 2), cs)
         \o RemoveChars(From(s, Len(s) \div 2 + 1), cs)

\* s without its leading (trailing) characters of the set cs
TrimLeft(s, cs) ==
    LET keep == { k \in 1..Len(s) : Ch(s, k) \notin cs } IN
    IF keep = {} THEN "" ELSE From(s, MinOf(keep))

TrimRight(s, cs) ==
    LET keep == { k \in 1..Len(s) : Ch(s, k) \notin cs } IN
    IF keep = {} THEN "" ELSE Sub(s, 1, CHOOSE k \in keep : \A m \in keep : m <= k)

(***************************************************************************)
(* new URL(input, base): the WHATWG basic URL parser used by Node, for the *)
(* character set of the model.  Not modelled: credentials ("@"), IPv6 and  *)
(* IPv4 hosts, IDNA, percent-escapes inside hosts, and the file: scheme's  *)
(* drive letters (file: is parsed as a non-special scheme).                *)
(***************************************************************************)
NoBase == [ok |-> FALSE, scheme |-> "", hasHost |-> FALSE, host |-> "", port |-> "",
           opaque |-> FALSE, path |-> "", hasQuery |-> FALSE, query |-> "",
           hasFrag |-> FALSE, frag |-> ""]

\* a parse failure: new URL throws TypeError (Invalid URL)
Failure == NoBase

SpecialSchemes == {"http", "https", "ftp", "ws", "wss"}

DefaultPort(scheme) ==
    CASE scheme \in {"http", "ws"} -> "80"
      [] scheme \in {"https", "wss"} -> "443"
      [] scheme = "ftp" -> "21"
      [] OTHER -> ""

SchemeChars == AlphaNum \cup {"+", "-", "."}

\* position of the ":" that ends a scheme at the start of s, 0 when s has none
SchemeEnd(s) ==
    IF Ch(s, 1) \notin Alpha THEN 0
    ELSE LET e == SpanEnd(s, SchemeChars, 1) IN
         IF Ch(s, e + 1) = ":" THEN e + 1 ELSE 0

PathEscapeSet == {" ", "\"", "<", ">", "^", "{", "}"}
QueryEscapeSet == {" ", "\"", "<", ">"}
SpecialQueryEscapeSet == QueryEscapeSet \cup {"'"}
FragmentEscapeSet == {" ", "\"", "<", ">"}
ForbiddenHostChars == {" ", "#", "/", ":", "<", ">", "?", "@", "[", "\\", "]", "^", "|", "%"}

IsSingleDot(seg) == ToLower(seg) \in {".", "%2e"}
IsDoubleDot(seg) == ToLower(seg) \in {"..", ".%2e", "%2e.", "%2e%2e"}

\* "shorten a URL's path": drop the last segment, if any
Shorten(segs) == IF Len(segs) = 0 THEN segs ELSE SubSeq(segs, 1, Len(segs) - 1)

\* acc after one segment of the path; last: nothing follows the segment
PushSegment(acc, seg, last) ==
    IF IsDoubleDot(seg) THEN (IF last THEN Append(Shorten(acc), "") ELSE Shorten(acc))
    ELSE IF IsSingleDot(seg) THEN (IF last THEN Append(acc, "") ELSE acc)
    ELSE Append(acc, EscapeChars(seg, PathEscapeSet))

RECURSIVE PathState(_, _, _)
PathRest(pushed, str, special, i) ==
    IF i = 0 THEN pushed ELSE PathState(pushed, From(str, i + 1), special)

PathStateAt(acc, str, special, i) ==
    PathRest(PushSegment(acc, IF i = 0 THEN str ELSE Sub(str, 1, i - 1), i = 0),
             str, special, i)

\* the path state: the segments of str appended to acc, dot segments resolved
PathState(acc, str, special) ==
    PathStateAt(acc, str, special,
                IndexFrom(str, IF special THEN {"/", "\\"} ELSE {"/"}, 1))

RECURSIVE JoinPath(_)
JoinPath(segs) == IF Len(segs) = 0 THEN "" ELSE "/" \o Head(segs) \o JoinPath(Tail(segs))

\* s cut at position i (0: no cut): what precedes it and what follows it
CutAt(s, i) ==
    [head |-> IF i = 0 THEN s ELSE Sub(s, 1, i - 1), has |-> i # 0,
     tail |-> IF i = 0 THEN "" ELSE From(s, i + 1)]

\* s cut at its first character c
CutOn(s, c) == CutAt(s, IndexFrom(s, {c}, 1))

RECURSIVE SplitOn(_, _)
SplitRest(cut, c) == IF cut.has THEN <<cut.head>> \o SplitOn(cut.tail, c) ELSE <<cut.head>>

\* s split on the character c, as a sequence of strings
SplitOn(s, c) == SplitRest(CutOn(s, c), c)

\* the segments of a serialized hierarchical path
SegsOf(path) == IF path = "" THEN <<>> ELSE SplitOn(From(path, 2), "/")

Tail3Of(f, q) ==
    [head |-> q.head, hasQuery |-> q.has, query |-> q.tail,
     hasFrag |-> f.has, frag |-> f.tail]

Tail3Q(f) == Tail3Of(f, CutOn(f.head, "?"))

\* s cut at the first "?" and "#": what precedes them, the query, the fragment
Tail3(s) == Tail3Q(CutOn(s, "#"))

EncQuery(q, special) ==
    EscapeChars(q, IF special THEN SpecialQueryEscapeSet ELSE QueryEscapeSet)

EncFrag(f) == EscapeChars(f, FragmentEscapeSet)

\* path state, query state and fragment state on the cut input t
WithPathT(scheme, special, hasHost, host, port, acc, t, consumeSlash) ==
    [ok |-> TRUE, scheme |-> scheme, hasHost |-> hasHost, host |-> host,
     port |-> port, opaque |-> FALSE,
     path |-> JoinPath(
         IF ~special /\ consumeSlash /\ t.head = "" THEN <<>>
         ELSE PathState(acc,
                        IF consumeSlash /\ (Ch(t.head, 1) = "/"
                                            \/ (special /\ Ch(t.head, 1) = "\\"))
                        THEN From(t.head, 2) ELSE t.head,
                        special)),
     hasQuery |-> t.hasQuery, query |-> EncQuery(t.query, special),
     hasFrag |-> t.hasFrag, frag |-> EncFrag(t.frag)]

\* a URL with a hierarchical path: path state, query state, fragment state on r
WithPath(scheme, hasHost, host, port, acc, r, consumeSlash) ==
    WithPathT(scheme, scheme \in SpecialSchemes, hasHost, host, port, acc,
              Tail3(r), consumeSlash)

\* host state and port state on the host h and the port p, then the path
AuthorityOf(scheme, special, h, p, rest) ==
    IF (special /\ h = "")
       \/ (\E i \in 1..Len(h) : Ch(h, i) \in ForbiddenHostChars)
       \/ (\E i \in 1..Len(p) : Ch(p, i) \notin Digit)
       \/ Len(p) > 5
    THEN Failure
    ELSE WithPath(scheme, TRUE, IF special THEN ToLower(h) ELSE h,
                  IF p = DefaultPort(scheme) THEN "" ELSE p, <<>>, rest, TRUE)

AuthoritySplit(scheme, special, hp, rest) ==
    AuthorityOf(scheme, special, hp.head, hp.tail, rest)

AuthorityAt(scheme, special, r, e) ==
    AuthoritySplit(scheme, special, CutOn(IF e = 0 THEN r ELSE Sub(r, 1, e - 1), ":"),
                   IF e = 0 THEN "" ELSE From(r, e))

\* authority state, host state, port state, path start state
Authority(scheme, r) ==
    AuthorityAt(scheme, scheme \in SpecialSchemes, r,
                IndexFrom(r, IF scheme \in SpecialSchemes THEN {"/", "\\", "?", "#"}
                             ELSE {"/", "?", "#"}, 1))

OpaquePathT(scheme, t) ==
    [ok |-> TRUE, scheme |-> scheme, hasHost |-> FALSE, host |-> "", port |-> "",
     opaque |-> TRUE, path |-> t.head,
     hasQuery |-> t.hasQuery, query |-> EncQuery(t.query, FALSE),
     hasFrag |-> t.hasFrag, frag |-> EncFrag(t.frag)]

\* opaque path state of a non-special scheme ("mailto:a", "tel:1")
OpaquePath(scheme, r) == OpaquePathT(scheme, Tail3(r))

\* the relative state on an input with no leading slash: t is the cut input
RelativeT(s, base, special, t) ==
    [base EXCEPT !.hasQuery = IF t.hasQuery THEN TRUE ELSE base.hasQuery,
                 !.query = IF t.hasQuery THEN EncQuery(t.query, special)
                           ELSE base.query,
                 !.hasFrag = t.hasFrag,
                 !.frag = EncFrag(t.frag)]

RelativeOf(s, base, special, slash, slash2) ==
    IF slash /\ slash2
    THEN Authority(base.scheme, IF special THEN TrimLeft(From(s, 3), {"/", "\\"})
                                ELSE From(s, 3))
    ELSE IF ~slash /\ Ch(s, 1) \in {"", "?", "#"}
    THEN RelativeT(s, base, special, Tail3(s))
    ELSE WithPath(base.scheme, base.hasHost, base.host, base.port,
                  IF slash THEN <<>> ELSE Shorten(SegsOf(base.path)),
                  IF slash THEN From(s, 2) ELSE s, FALSE)

\* relative state and relative slash state
Relative(s, base) ==
    RelativeOf(s, base, base.scheme \in SpecialSchemes,
               Ch(s, 1) = "/" \/ (base.scheme \in SpecialSchemes /\ Ch(s, 1) = "\\"),
               IF base.scheme \in SpecialSchemes THEN Ch(s, 2) \in {"/", "\\"}
               ELSE Ch(s, 2) = "/")

\* scheme state onwards, for an input that starts with "scheme:"
AfterSchemeOf(scheme, rest, base, special) ==
    IF special /\ base.ok /\ base.scheme = scheme /\ ~StartsWith(rest, "//")
    THEN Relative(rest, base)
    ELSE IF special \/ StartsWith(rest, "//")
    THEN Authority(scheme, IF special THEN TrimLeft(rest, {"/", "\\"}) ELSE From(rest, 3))
    ELSE IF StartsWith(rest, "/")
    THEN WithPath(scheme, FALSE, "", "", <<>>, From(rest, 2), FALSE)
    ELSE OpaquePath(scheme, rest)

AfterScheme(scheme, rest, base) ==
    AfterSchemeOf(scheme, rest, base, scheme \in SpecialSchemes)

\* the parser on the input s, stripped of surrounding and inner control
\* characters, whose scheme ends at e (0: it has none)
ParseAt(s, e, base) ==
    IF e > 0 THEN AfterScheme(ToLower(Sub(s, 1, e - 1)), From(s, e + 1), base)
    ELSE IF ~base.ok THEN Failure
    ELSE IF base.opaque
         THEN IF Ch(s, 1) = "#"
              THEN [base EXCEPT !.hasFrag = TRUE, !.frag = EncFrag(From(s, 2))]
              ELSE Failure
    ELSE Relative(s, base)

ParseClean(s, base) == ParseAt(s, SchemeEnd(s), base)

\* new URL(input) when base = NoBase, new URL(input, base) otherwise
ParseURL(input, base) ==
    ParseClean(RemoveChars(TrimRight(TrimLeft(input, WhiteSpace), WhiteSpace),
                           {"\t", "\n", "\r"}), base)

\* URL.host, URL.protocol, URL.pathname, URL.search, URL.href
UrlHost(u) == u.host \o (IF u.port = "" THEN "" ELSE ":" \o u.port)
UrlProtocol(u) == u.scheme \o ":"
UrlPathname(u) == u.path
UrlSearch(u) == IF u.hasQuery /\ u.query # "" THEN "?" \o u.query ELSE ""
UrlHref(u) ==
    u.scheme \o ":" \o (IF u.hasHost THEN "//" \o UrlHost(u) ELSE "") \o u.path
    \o (IF u.hasQuery THEN "?" \o u.query ELSE "")
    \o (IF u.hasFrag THEN "#" \o u.frag ELSE "")


(***************************************************************************)
(* The link rewriter of onProxyRes: urlPattern, its replace callback, and  *)
(* the srcset pass.  A rewriting result is [threw, text]: threw is TRUE    *)
(* when a callback raised (new URL failed), which aborts String.replace.   *)
(***************************************************************************)
\* last position of the maximal run, from i, of characters not in cs
SpanEndNot(s, cs, i) ==
    LET stops == { k \in i..Len(s) : Ch(s, k) \in cs } IN
    IF stops = {} THEN (IF Len(s) < i THEN i - 1 ELSE Len(s)) ELSE MinOf(stops) - 1

\* position after the run of whitespace that starts at i (\s*, greedy)
SkipWs(s, i) == SpanEnd(s, WhiteSpace, i) + 1

\* text at position i equals pfx, ignoring case (the i flag)
MatchesAtCI(s, pfx, i) == ToLower(Sub(s, i, i + Len(pfx) - 1)) = pfx

NoMatch == [ok |-> FALSE, last |-> 0, attr |-> "", quote |-> "", rel |-> ""]

SkipListedAt(s, p, e) ==
    \/ MatchesAtCI(s, "data:", p)
    \/ MatchesAtCI(s, "mailto:", p)
    \/ Ch(s, p) = "#"
    \/ MatchesAtCI(s, "javascript:", p)
    \/ MatchesAtCI(s, "about:", p)
    \/ (e >= p /\ Ch(s, e + 1) = ":" /\ StartsWithAt(s, "//", e + 2))
    \/ StartsWithAt(s, "//", p)

\* the negated lookahead (?!data:|mailto:|#|javascript:|about:|(?:[a-zA-Z]+:)?\/\/)
\* TRUE when one of its alternatives matches at p, i.e. the value is skipped
SkipListed(s, p) == SkipListedAt(s, p, SpanEnd(s, Alpha, p))

\* the characters group 4 cannot hold: [^\s'"`()]
ValueStop == WhiteSpace \cup QuoteChars \cup {"(", ")"}

\* (src|href|action) at position i, as written; "" when none is there
AttrName(s, i) ==
    IF MatchesAtCI(s, "src", i) THEN Sub(s, i, i + 2)
    ELSE IF MatchesAtCI(s, "href", i) THEN Sub(s, i, i + 3)
    ELSE IF MatchesAtCI(s, "action", i) THEN Sub(s, i, i + 5)
    ELSE ""

AttrPrefixB(s, name, a, b) ==
    IF name # "" /\ Ch(s, a) = "=" /\ Ch(s, b) \in QuoteChars
    THEN [ok |-> TRUE, last |-> b, attr |-> name, quote |-> Ch(s, b), rel |-> ""]
    ELSE NoMatch

AttrPrefixA(s, name, a) == AttrPrefixB(s, name, a, SkipWs(s, a + 1))

AttrPrefixN(s, i, name) == AttrPrefixA(s, name, SkipWs(s, i + Len(name)))

\* (src|href|action)\s*=\s*(['"`]) at position i
AttrPrefix(s, i) == AttrPrefixN(s, i, AttrName(s, i))

\* the value runs from p to e; w is the position after the whitespace behind it
AttrMatchW(s, pre, p, e, w) ==
    IF ~pre.ok \/ SkipListed(s, p) THEN NoMatch
    ELSE IF Ch(s, e + 1) = pre.quote
         THEN [pre EXCEPT !.last = e + 1, !.rel = Sub(s, p, e)]
    ELSE IF Ch(s, w) = ")"
         THEN [pre EXCEPT !.last = w, !.rel = Sub(s, p, e)]
    ELSE NoMatch

AttrMatchE(s, pre, p, e) == AttrMatchW(s, pre, p, e, SkipWs(s, e + 1))

AttrMatchP(s, pre) ==
    AttrMatchE(s, pre, pre.last + 1, SpanEndNot(s, ValueStop, pre.last + 1))

\* urlPattern at position i, first alternative.  Group 4 is lazy, and the
\* closing part (?:\2|\3\s*\)) starts with a character group 4 cannot hold, so
\* the match ends after the whole run of value characters or not at all; \3
\* took no part in the match and matches the empty string.
AttrMatch(s, i) == AttrMatchP(s, AttrPrefix(s, i))

CssUrlMatchS(s, a, b, skip) ==
    IF Ch(s, b) \in QuoteChars /\ ~SkipListed(s, b + 1)
    THEN [ok |-> TRUE, last |-> b, attr |-> "", quote |-> Ch(s, b), rel |-> ""]
    ELSE IF ~skip
         THEN [ok |-> TRUE, last |-> b - 1, attr |-> "", quote |-> "", rel |-> ""]
    ELSE IF b > a + 1
         THEN [ok |-> TRUE, last |-> b - 2, attr |-> "", quote |-> "", rel |-> ""]
    ELSE NoMatch

CssUrlMatchB(s, i, a, b) ==
    IF ~(MatchesAtCI(s, "url", i) /\ Ch(s, a) = "(") THEN NoMatch
    ELSE CssUrlMatchS(s, a, b, SkipListed(s, b))

CssUrlMatchA(s, i, a) == CssUrlMatchB(s, i, a, SkipWs(s, a + 1))

\* urlPattern at position i, second alternative url\s*\(\s*(['"`]?).  \2 took
\* no part in the match, so the closing part matches the empty string at once
\* and the lazy group 4 is empty: the match is "url(" with an empty group 4.
\* The tries are in the engine's backtracking order.
CssUrlMatch(s, i) == CssUrlMatchA(s, i, SkipWs(s, i + 3))

UrlPatternOr(m, s, i) == IF m.ok THEN m ELSE CssUrlMatch(s, i)

\* urlPattern at position i: [ok, last, attr, quote, rel]
urlPattern(s, i) == UrlPatternOr(AttrMatch(s, i), s, i)

ProxiedOf(u, proxyBaseUrl) ==
    [threw |-> ~u.ok,
     text |-> IF u.ok THEN proxyBaseUrl \o encodeURIComponent(UrlHref(u)) ELSE ""]

\* `${proxyBaseUrl}${encodeURIComponent(new URL(link, targetUrl).href)}`
ProxiedUrl(link, targetUrl, proxyBaseUrl) ==
    ProxiedOf(ParseURL(link, ParseURL(targetUrl, NoBase)), proxyBaseUrl)

UrlCallbackOf(s, i, m, new) ==
    IF m.rel = "" THEN [threw |-> FALSE, text |-> Sub(s, i, m.last)]
    ELSE IF new.threw THEN new
    ELSE IF m.attr # ""
         THEN [threw |-> FALSE, text |-> m.attr \o "=" \o m.quote \o new.text \o m.quote]
    ELSE [threw |-> FALSE, text |-> "url(" \o m.quote \o new.text \o m.quote \o ")"]

\* the replace callback of urlPattern, for the match m that starts at i
UrlCallback(s, i, m, targetUrl, proxyBaseUrl) ==
    UrlCallbackOf(s, i, m, ProxiedUrl(m.rel, targetUrl, proxyBaseUrl))

\* the text from i on, with the match at k replaced by r and rest behind it
Spliced(s, i, k, r, rest) ==
    IF r.threw \/ rest.threw THEN [threw |-> TRUE, text |-> ""]
    ELSE [threw |-> FALSE, text |-> Sub(s, i, k - 1) \o r.text \o rest.text]

RECURSIVE ReplaceUrls(_, _, _, _)
ReplaceUrlsM(s, i, k, m, targetUrl, proxyBaseUrl) ==
    Spliced(s, i, k, UrlCallback(s, k, m, targetUrl, proxyBaseUrl),
            ReplaceUrls(s, m.last + 1, targetUrl, proxyBaseUrl))

ReplaceUrlsIn(s, i, starts, targetUrl, proxyBaseUrl) ==
    IF starts = {} THEN [threw |-> FALSE, text |-> From(s, i)]
    ELSE ReplaceUrlsM(s, i, MinOf(starts), urlPattern(s, MinOf(starts)),
                      targetUrl, proxyBaseUrl)

\* responseString.replace(urlPattern, callback) from position i on
ReplaceUrls(s, i, targetUrl, proxyBaseUrl) ==
    ReplaceUrlsIn(s, i, { k \in i..Len(s) : urlPattern(s, k).ok }, targetUrl, proxyBaseUrl)

\* (srcset\s*=\s*)(['"`])(.*?)(\2) at position i: [ok, last, p1, quote, value]
NoSrcset == [ok |-> FALSE, last |-> 0, p1 |-> "", quote |-> "", value |-> ""]

SrcsetPatternE(s, i, a, b, e) ==
    IF MatchesAtCI(s, "srcset", i) /\ Ch(s, a) = "=" /\ Ch(s, b) \in QuoteChars
       /\ e # 0 /\ Ch(s, e) = Ch(s, b)
    THEN [ok |-> TRUE, last |-> e, p1 |-> Sub(s, i, b - 1), quote |-> Ch(s, b),
          value |-> Sub(s, b + 1, e - 1)]
    ELSE NoSrcset

SrcsetPatternB(s, i, a, b) ==
    SrcsetPatternE(s, i, a, b, IndexFrom(s, {Ch(s, b), "\n", "\r"}, b + 1))

SrcsetPatternA(s, i, a) == SrcsetPatternB(s, i, a, SkipWs(s, a + 1))

srcsetPattern(s, i) == SrcsetPatternA(s, i, SkipWs(s, i + 6))

RECURSIVE SplitWs(_)
SplitWsAt(s, i) ==
    IF i = 0 THEN <<s>> ELSE <<Sub(s, 1, i - 1)>> \o SplitWs(From(s, SkipWs(s, i)))

\* str.split(/\s+/) of a trimmed string
SplitWs(s) == SplitWsAt(s, IndexFrom(s, WhiteSpace, 1))

RECURSIVE JoinWith(_, _)
JoinWith(parts, sep) ==
    IF Len(parts) = 0 THEN ""
    ELSE IF Len(parts) = 1 THEN Head(parts)
    ELSE Head(parts) \o sep \o JoinWith(Tail(parts), sep)

SrcsetSkippedAt(tok, e) ==
    \/ StartsWith(tok, "data:")
    \/ StartsWith(tok, "//")
    \/ (e >= 1 /\ Ch(tok, e + 1) = ":" /\ StartsWithAt(tok, "//", e + 2))

\* parts[0].startsWith('data:') || parts[0].match(/^(?:[a-z]+:)?\/\//i)
SrcsetSkipped(tok) == SrcsetSkippedAt(tok, SpanEnd(tok, Alpha, 1))

SrcsetEntryNew(entry, parts, new) ==
    IF SrcsetSkipped(parts[1]) THEN [threw |-> FALSE, text |-> entry]
    ELSE IF new.threw THEN new
    ELSE [threw |-> FALSE, text |-> JoinWith(<<new.text>> \o Tail(parts), " ")]

SrcsetEntryOf(entry, parts, targetUrl, proxyBaseUrl) ==
    SrcsetEntryNew(entry, parts, ProxiedUrl(parts[1], targetUrl, proxyBaseUrl))

\* the map callback of the srcset pass, for one comma-separated entry
SrcsetEntry(entry, targetUrl, proxyBaseUrl) ==
    SrcsetEntryOf(entry, SplitWs(TrimRight(TrimLeft(entry, WhiteSpace), WhiteSpace)),
                  targetUrl, proxyBaseUrl)

SrcsetJoined(entries, first, rest) ==
    IF Len(entries) = 1 THEN first
    ELSE IF first.threw \/ rest.threw THEN [threw |-> TRUE, text |-> ""]
    ELSE [threw |-> FALSE, text |-> first.text \o ", " \o rest.text]

RECURSIVE SrcsetEntries(_, _, _)
\* entries.map(...).join(', ')
SrcsetEntries(entries, targetUrl, proxyBaseUrl) ==
    SrcsetJoined(entries, SrcsetEntry(Head(entries), targetUrl, proxyBaseUrl),
                 SrcsetEntries(Tail(entries), targetUrl, proxyBaseUrl))

SrcsetCallbackOf(m, new) ==
    IF new.threw THEN new
    ELSE [threw |-> FALSE, text |-> m.p1 \o new.text \o m.quote]

\* the replace callback of srcsetPattern: `${p1}${newSrcsetEntries}${quote}`
SrcsetCallback(m, targetUrl, proxyBaseUrl) ==
    SrcsetCallbackOf(m, SrcsetEntries(SplitOn(m.value, ","), targetUrl, proxyBaseUrl))

RECURSIVE ReplaceSrcset(_, _, _, _)
ReplaceSrcsetM(s, i, k, m, targetUrl, proxyBaseUrl) ==
    Spliced(s, i, k, SrcsetCallback(m, targetUrl, proxyBaseUrl),
            ReplaceSrcset(s, m.last + 1, targetUrl, proxyBaseUrl))

ReplaceSrcsetIn(s, i, starts, targetUrl, proxyBaseUrl) ==
    IF starts = {} THEN [threw |-> FALSE, text |-> From(s, i)]
    ELSE ReplaceSrcsetM(s, i, MinOf(starts), srcsetPattern(s, MinOf(starts)),
                        targetUrl, proxyBaseUrl)

\* responseString.replace(srcsetPattern, callback) from position i on
ReplaceSrcset(s, i, targetUrl, proxyBaseUrl) ==
    ReplaceSrcsetIn(s, i, { k \in i..Len(s) : srcsetPattern(s, k).ok },
                    targetUrl, proxyBaseUrl)

RewriteSrcset(r1, targetUrl, proxyBaseUrl, isHtml) ==
    IF r1.threw \/ ~isHtml THEN r1
    ELSE ReplaceSrcset(r1.text, 1, targetUrl, proxyBaseUrl)

\* the two replace calls of onProxyRes on the decoded text
RewriteBody(body, targetUrl, proxyBaseUrl, isHtml) ==
    RewriteSrcset(ReplaceUrls(body, 1, targetUrl, proxyBaseUrl),
                  targetUrl, proxyBaseUrl, isHtml)


(***************************************************************************)
(* Query strings: URLSearchParams.toString() on the POST side, and the     *)
(* Express query parser (qs) that fills req.query on the GET side.         *)
(***************************************************************************)
\* a value that is not there (undefined)
Absent == "<undefined>"

\* the JSON boolean true (as opposed to the string "true")
JTrue == "<true>"

FormKeep == AlphaNum \cup {"*", "-", ".", "_"}

RECURSIVE FormEncode(_)
\* the application/x-www-form-urlencoded serializer of URLSearchParams
FormEncode(s) ==
    IF Len(s) <= 1
    THEN (IF s = " " THEN "+" ELSE IF s \in FormKeep THEN s ELSE Pct(s))
    ELSE FormEncode(Sub(s, 1, Len(s) \div 2)) \o FormEncode(From(s, Len(s) \div 2 + 1))

RECURSIVE UnescapeAll(_)
UnescapeAll(s) ==
    LET i == IndexFrom(s, {"%"}, 1) IN
    IF i = 0 THEN s
    ELSE Sub(s, 1, i - 1) \o UnPct(Sub(s, i, i + 2)) \o UnescapeAll(From(s, i + 3))

RECURSIVE PlusToSpace(_)
PlusToSpace(s) ==
    IF Len(s) <= 1 THEN (IF s = "+" THEN " " ELSE s)
    ELSE PlusToSpace(Sub(s, 1, Len(s) \div 2)) \o PlusToSpace(From(s, Len(s) \div 2 + 1))

QsDecoded(t) ==
    IF \A i \in 1..Len(t) : Ch(t, i) = "%" => IsEscapeAt(t, i)
    THEN UnescapeAll(t)
    ELSE t

\* qs utils.decode: "+" to space, then decodeURIComponent; a malformed escape
\* makes decodeURIComponent throw and qs keeps the text
QsDecode(s) == QsDecoded(PlusToSpace(s))

\* the key and the value of one "&"-separated part, cut at its first "="
QueryKey(cut) == QsDecode(cut.head)
QueryVal(cut) == IF cut.has THEN QsDecode(cut.tail) ELSE ""

QueryGetIn(parts, hits) ==
    IF hits = {} THEN Absent ELSE QueryVal(CutOn(parts[MinOf(hits)], "="))

QueryGetOf(parts, key) ==
    QueryGetIn(parts, { k \in 1..Len(parts) :
                          parts[k] # "" /\ QueryKey(CutOn(parts[k], "=")) = key })

\* req.query[key] for the query string qstr (the text after "?"); a repeated
\* key (an array value) is outside the model
QueryGet(qstr, key) == QueryGetOf(SplitOn(qstr, "&"), key)

\* the text after the first "?" of a request URL (req.url)
QueryOf(reqUrl) == CutOn(reqUrl, "?").tail

\* a descriptor whose url parameter is appended without form encoding
RedirectUrlRaw(targetUrl, hideReferer, removeCookiesOption) ==
    "/api/proxy?" \o "url=" \o targetUrl
    \o (IF hideReferer THEN "&hideReferer=true" ELSE "")
    \o (IF removeCookiesOption THEN "&removeCookies=true" ELSE "")

\* `/api/proxy?${params.toString()}` of the POST branch
RedirectUrl(targetUrl, hideReferer, removeCookiesOption) ==
    "/api/proxy?" \o "url=" \o FormEncode(targetUrl)
    \o (IF hideReferer THEN "&hideReferer=true" ELSE "")
    \o (IF removeCookiesOption THEN "&removeCookies=true" ELSE "")

\* `${u.protocol}//${u.host}`
OriginOf(u) == UrlProtocol(u) \o "//" \o UrlHost(u)

\* a target that is one origin for every request
ProxyTargetShared(targetUrl) == "http://a.test"

\* options.target: `${targetObj.protocol}//${targetObj.host}`
ProxyTarget(targetUrl) == OriginOf(ParseURL(targetUrl, NoBase))

PathAndSearch(u) == UrlPathname(u) \o UrlSearch(u)

\* options.pathRewrite: pathname + search of new URL(req.query.url)
pathRewrite(queryUrl, targetUrl) ==
    PathAndSearch(ParseURL(IF queryUrl = Absent \/ queryUrl = "" THEN targetUrl
                           ELSE queryUrl, NoBase))

\* ---------------------------------------------------------------------------
\* The upstream exchange: onProxyReq and onProxyRes of createProxyHandler
\* ---------------------------------------------------------------------------

\* String.prototype.includes
Contains(s, sub) == \E i \in 1..(Len(s) + 1) : StartsWithAt(s, sub, i)

\* the inbound request headers the handler can strip
HeaderNames == {"referer", "origin", "cookie"}

\* an onProxyReq that leaves the origin header in place
onProxyReqKeepOrigin(headers, hideReferer, removeCookiesOption) ==
    [ h \in HeaderNames |->
        IF hideReferer /\ h = "referer" THEN Absent
        ELSE IF removeCookiesOption /\ h = "cookie" THEN Absent
        ELSE headers[h] ]

\* onProxyReq: the headers of the upstream request, from the inbound ones
onProxyReq(headers, hideReferer, removeCookiesOption) ==
    [ h \in HeaderNames |->
        IF hideReferer /\ h \in {"referer", "origin"} THEN Absent
        ELSE IF removeCookiesOption /\ h = "cookie" THEN Absent
        ELSE headers[h] ]

LocationIsAbsoluteAt(location, e) ==
    \/ StartsWith(location, "//")
    \/ /\ e > 1
       /\ \A k \in 1..(e - 1) : Ch(location, k) \in Alpha
       /\ StartsWithAt(location, "//", e + 1)

\* newLocation.match(/^(?:[a-z]+:)?\/\//i)
LocationIsAbsolute(location) == LocationIsAbsoluteAt(location, SchemeEnd(location))

\* the catch branch, ending in new URL(newLocation, targetUrl) (second)
LocationCatch(location, sourceOrigin, second, proxyBaseUrl) ==
    IF StartsWith(location, "/")
    THEN [threw |-> FALSE,
          value |-> proxyBaseUrl \o encodeURIComponent(sourceOrigin \o location)]
    ELSE IF ~LocationIsAbsolute(location)
    THEN (IF second.ok
          THEN [threw |-> FALSE,
                value |-> proxyBaseUrl \o encodeURIComponent(UrlHref(second))]
          ELSE [threw |-> TRUE, value |-> location])
    ELSE [threw |-> FALSE, value |-> location]

\* target: new URL(targetUrl); redirectedUrl: new URL(newLocation, sourceOrigin)
LocationOf(location, target, redirectedUrl, proxyBaseUrl) ==
    IF redirectedUrl.ok
    THEN [threw |-> FALSE,
          value |-> proxyBaseUrl \o encodeURIComponent(UrlHref(redirectedUrl))]
    ELSE LocationCatch(location, OriginOf(target), ParseURL(location, target),
                       proxyBaseUrl)

LocationFrom(location, target, base, proxyBaseUrl) ==
    LocationOf(location, target,
               IF base.ok THEN ParseURL(location, base) ELSE Failure, proxyBaseUrl)

LocationOn(location, target, proxyBaseUrl) ==
    LocationFrom(location, target, ParseURL(OriginOf(target), NoBase), proxyBaseUrl)

\* the Location handling of onProxyRes; threw: the second new URL() threw too
RewriteLocation(location, targetUrl, proxyBaseUrl) ==
    LocationOn(location, ParseURL(targetUrl, NoBase), proxyBaseUrl)

\* a response (upstream or delivered): status, the headers the handler looks
\* at, and the body; contentLength -1 stands for no such header
NoHeaders ==
    [location |-> Absent, setCookie |-> Absent, contentType |-> Absent,
     contentEncoding |-> Absent, transferEncoding |-> Absent, contentLength |-> -1]

\* heads: how many times a header block was written (res.headersSent is
\* heads > 0); ended: res.end() was called
NoResponse ==
    [status |-> 0, headers |-> NoHeaders, body |-> "", via |-> "none",
     message |-> "", url |-> Absent, heads |-> 0, ended |-> FALSE]

\* a response written and ended in one go
Sent == [NoResponse EXCEPT !.heads = 1, !.ended = TRUE]

(***************************************************************************)
(* Buffers and strings.  A body is a string of bytes and a decoded text a  *)
(* string of characters; a byte or a character of the ASCII range is       *)
(* written as itself, and those outside it with the stand-ins below, which *)
(* the documents do not use as ASCII characters.  A byte and the character *)
(* of the same value share their stand-in.                                 *)
(***************************************************************************)
XC3 == "["    \* the byte C3
XA9 == "]"    \* the byte A9
XE9 == "|"    \* the byte E9 and the character U+00E9, in UTF-8 the bytes C3 A9
XEF == "~"    \* the byte EF
XBF == "@"    \* the byte BF
XBD == "$"    \* the byte BD
XFFFD == "^"  \* the character U+FFFD, in UTF-8 the bytes EF BF BD

HighBytes == {XC3, XA9, XE9, XEF, XBF, XBD}

\* the encoding names Buffer knows (compared without case)
BufferEncodings ==
    {"utf8", "utf-8", "ucs2", "ucs-2", "utf16le", "utf-16le", "latin1", "binary",
     "base64", "base64url", "ascii", "hex"}

\* length of the UTF-8 sequence that starts at byte i (0: an invalid byte)
Utf8SeqLen(bytes, i) ==
    IF Ch(bytes, i) \notin HighBytes THEN 1
    ELSE IF Sub(bytes, i, i + 1) = XC3 \o XA9 THEN 2
    ELSE IF Sub(bytes, i, i + 2) = XEF \o XBF \o XBD THEN 3
    ELSE 0

Utf8CharAt(bytes, i, n) ==
    IF n = 1 THEN Ch(bytes, i) ELSE IF n = 2 THEN XE9 ELSE XFFFD

RECURSIVE DecodeUtf8From(_, _)
DecodeUtf8Step(bytes, i, n) ==
    Utf8CharAt(bytes, i, n) \o DecodeUtf8From(bytes, i + (IF n = 0 THEN 1 ELSE n))

\* buf.toString('utf8'): an invalid byte becomes U+FFFD
DecodeUtf8From(bytes, i) ==
    IF i > Len(bytes) THEN "" ELSE DecodeUtf8Step(bytes, i, Utf8SeqLen(bytes, i))

Utf8BytesOf(c) ==
    IF c = XE9 THEN XC3 \o XA9 ELSE IF c = XFFFD THEN XEF \o XBF \o XBD ELSE c

RECURSIVE EncodeUtf8From(_, _)
\* Buffer.from(text, 'utf8'), for the characters DecodeUtf8From yields
EncodeUtf8From(text, i) ==
    IF i > Len(text) THEN "" ELSE Utf8BytesOf(Ch(text, i)) \o EncodeUtf8From(text, i + 1)

\* the low seven bits of a byte, as buf.toString('ascii') takes them
AsciiOfByte(b) ==
    IF b = XC3 THEN "C" ELSE IF b = XA9 THEN ")" ELSE IF b = XE9 THEN "i"
    ELSE IF b = XEF THEN "o" ELSE IF b = XBF THEN "?" ELSE IF b = XBD THEN "="
    ELSE b

RECURSIVE DecodeAsciiFrom(_, _)
DecodeAsciiFrom(bytes, i) ==
    IF i > Len(bytes) THEN ""
    ELSE AsciiOfByte(Ch(bytes, i)) \o DecodeAsciiFrom(bytes, i + 1)

\* bodyContent.toString(charset); latin1 maps every byte to the character of
\* its value.  The other encodings of Buffer are not modelled.
Decode(bytes, charset) ==
    CASE ToLower(charset) \in {"utf8", "utf-8"} -> DecodeUtf8From(bytes, 1)
      [] ToLower(charset) \in {"latin1", "binary"} -> bytes
      [] ToLower(charset) = "ascii" -> DecodeAsciiFrom(bytes, 1)

\* Buffer.from(responseString, charset); latin1 and ascii map every character
\* below U+0100 to the byte of its value
Encode(text, charset) ==
    CASE ToLower(charset) \in {"utf8", "utf-8"} -> EncodeUtf8From(text, 1)
      [] ToLower(charset) \in {"latin1", "binary", "ascii"} -> text

\* contentType.match(/charset=([^;\s]+)/i): group 1, Absent without a match
CharsetMatchAt(contentType, starts) ==
    IF starts = {} THEN Absent
    ELSE Sub(contentType, MinOf(starts) + 8,
             SpanEndNot(contentType, WhiteSpace \cup {";"}, MinOf(starts) + 8))

CharsetMatch(contentType) ==
    CharsetMatchAt(contentType,
                   { k \in 1..Len(contentType) :
                       /\ MatchesAtCI(contentType, "charset=", k)
                       /\ k + 8 <= Len(contentType)
                       /\ Ch(contentType, k + 8) \notin WhiteSpace \cup {";"} })

\* a charset choice that falls back to latin1
CharsetFromLatin1(name) ==
    IF name # Absent /\ ToLower(name) \in BufferEncodings THEN name ELSE "latin1"

\* the charset onProxyRes decodes and re-encodes with: that of the
\* Content-Type when Buffer.from('', name) accepts it, utf-8 otherwise
CharsetFrom(name) ==
    IF name # Absent /\ ToLower(name) \in BufferEncodings THEN name ELSE "utf-8"

CharsetOf(contentType) ==
    CharsetFrom(IF contentType = Absent THEN Absent ELSE CharsetMatch(contentType))

\* a header pass that deletes set-cookie whatever the flag says
MutatedHeadersNoCookies(up, targetUrl, removeCookiesOption, proxyBaseUrl) ==
    [up.headers EXCEPT
        !.location = IF up.headers.location # Absent /\ up.headers.location # ""
                     THEN RewriteLocation(@, targetUrl, proxyBaseUrl).value
                     ELSE @,
        !.setCookie = Absent]

\* proxyRes.headers after the Location rewrite and the set-cookie removal
MutatedHeaders(up, targetUrl, removeCookiesOption, proxyBaseUrl) ==
    [up.headers EXCEPT
        !.location = IF up.headers.location # Absent /\ up.headers.location # ""
                     THEN RewriteLocation(@, targetUrl, proxyBaseUrl).value
                     ELSE @,
        !.setCookie = IF removeCookiesOption THEN Absent ELSE @]

IsTextual(contentType) ==
    /\ contentType # Absent
    /\ \/ Contains(contentType, "text/html")
       \/ Contains(contentType, "text/css")
       \/ Contains(contentType, "application/javascript")
       \/ Contains(contentType, "text/javascript")

IsCompressed(contentEncoding) == contentEncoding \in {"gzip", "deflate", "br"}

\* an onError that writes its 500 whether or not headers were sent
onErrorAlwaysWrites(response) ==
    [Sent EXCEPT !.status = 500, !.via = "json", !.message = "Proxy error",
                 !.headers = [NoHeaders EXCEPT !.contentType = "application/json"],
                 !.heads = response.heads + 1]

\* what onError does to the response: the 500 with its JSON body when no
\* headers were sent, res.end() alone otherwise
onError(response) ==
    IF response.heads = 0
    THEN [Sent EXCEPT !.status = 500, !.via = "json", !.message = "Proxy error",
                      !.headers = [NoHeaders EXCEPT !.contentType = "application/json"]]
    ELSE [response EXCEPT !.ended = TRUE]

\* res.writeHead(proxyRes.statusCode, proxyRes.headers) of the passthrough
WriteHead(response, up, hdrs) ==
    [response EXCEPT !.status = up.status, !.headers = hdrs, !.via = "passthrough",
                     !.heads = @ + 1]

\* the end of onProxyRes: rewrite is the outcome of decoding and rewriting
\* the buffered body, hdrs the mutated proxyRes.headers
Emit(up, hdrs, rewrite) ==
    IF IsTextual(hdrs.contentType)
    THEN IF rewrite.threw
         THEN \* catch: headers copied, the ended stream piped
              [Sent EXCEPT !.status = up.status, !.headers = hdrs,
                           !.body = "", !.via = "fallback"]
         ELSE [Sent EXCEPT
                 !.status = up.status,
                 !.headers = [NoHeaders EXCEPT
                                !.contentType = hdrs.contentType,
                                !.contentLength = Len(rewrite.text)],
                 !.body = rewrite.text, !.via = "rewritten"]
    ELSE [Sent EXCEPT !.status = up.status, !.headers = hdrs,
                      !.body = up.body, !.via = "passthrough"]

\* a body that is the rewritten text itself, not its bytes
ReencodedAsText(rewrite, charset) == rewrite

\* newBodyBuffer: the rewritten text as bytes again
Reencoded(rewrite, charset) ==
    IF rewrite.threw THEN rewrite
    ELSE [threw |-> FALSE, text |-> Encode(rewrite.text, charset)]

\* the buffered body decoded, rewritten and re-encoded; up.plain is what
\* decompressing up.body yields, Absent when zlib throws
Processed(up, hdrs, targetUrl, proxyBaseUrl) ==
    IF IsCompressed(hdrs.contentEncoding) /\ up.plain = Absent
    THEN [threw |-> TRUE, text |-> ""]
    ELSE Reencoded(
           RewriteBody(Decode(IF IsCompressed(hdrs.contentEncoding) THEN up.plain
                              ELSE up.body, CharsetOf(hdrs.contentType)),
                       targetUrl, proxyBaseUrl,
                       hdrs.contentType # Absent /\ Contains(hdrs.contentType, "text/html")),
           CharsetOf(hdrs.contentType))

OnProxyResWith(up, hdrs, targetUrl, proxyBaseUrl) ==
    Emit(up, hdrs, Processed(up, hdrs, targetUrl, proxyBaseUrl))

\* onProxyRes: the response delivered to the client for the upstream response up
onProxyRes(up, targetUrl, removeCookiesOption, proxyBaseUrl) ==
    OnProxyResWith(up, MutatedHeaders(up, targetUrl, removeCookiesOption, proxyBaseUrl),
                   targetUrl, proxyBaseUrl)

(***************************************************************************)
(* The proxy endpoint as a state machine.  A request passes the tracking   *)
(* middleware of routes.ts and then the handler of createProxyHandler.     *)
(* The storage is better-sqlite3 (db.ts), whose calls complete             *)
(* synchronously: the code after an await on it resumes from the microtask *)
(* queue, before the event loop dispatches another request.  The steps of  *)
(* one request up to its response, or up to the start of its upstream      *)
(* request, therefore run without another request or the admin endpoint    *)
(* in between; requests overlap while they wait for their upstream server. *)
(***************************************************************************)

\* the number of proxy requests of one run
NumReqs == 2

Reqs == 1..NumReqs

\* the x-fingerprint header; NoFp stands for a request without it
NoFp == "<none>"
Fingerprints == {NoFp, "fpA"}

\* req.ip; the runs use one address
ClientIp == "10.0.0.1"

\* JSON false in a request body
JFalse == "<false>"

\* the url parameter of a request
UrlInputs == {Absent, "example.com", "ftp://f.test/x", "http://a.test/p?x=1&y=2#f"}

\* hideReferer / removeCookies as a query parameter and as a JSON body field;
\* a string-valued body field reaches storage.logUserInput, which the source
\* does not contain, and is left out
QueryFlagInputs == {Absent, "true"}
BodyFlagInputs == {JFalse, JTrue}

\* the inbound headers of a request
HeaderInputs ==
    { [referer |-> "http://p.test/", origin |-> "http://p.test", cookie |-> "sid=1"] }

\* `${req.protocol}://${req.get('host')}/api/proxy?url=`
OwnHost == "http://p.test"
ProxyBaseUrl == OwnHost \o "/api/proxy?url="

\* the responses an upstream server gives in the runs
UpstreamResponses ==
    { [status |-> 200,
       headers |-> [NoHeaders EXCEPT !.contentType = "text/html; charset=utf-8",
                                     !.setCookie = "t=1", !.contentLength = 13],
       body |-> "<a href=\"/x\">", plain |-> Absent],
      [status |-> 200,
       headers |-> [NoHeaders EXCEPT !.contentType = "image/png",
                                     !.setCookie = "t=1", !.contentLength = 3],
       body |-> "PNG", plain |-> Absent],
      [status |-> 200,
       headers |-> [NoHeaders EXCEPT !.contentType = "text/html",
                                     !.contentEncoding = "gzip",
                                     !.setCookie = "t=1", !.contentLength = 2],
       body |-> "zz", plain |-> Absent] }

VARIABLES
    visitors,       \* the visitors table, in rowid order; the id is the index
    proxyRequests,  \* the proxy_requests table, in insertion order
    pc,             \* where each request is
    running,        \* the request whose code is running (0: the loop is idle)
    req,            \* each request as received
    hnd,            \* the locals of the middleware and handler working on it
    res,            \* the response given to each request
    upstream,       \* the upstream request made for each request
    page,           \* the document under rewriting (the rewriting runs)
    out,            \* its rewritten text
    nav,            \* the GET that following its link produces
    wire,           \* the upstream response as the server sent it (the
                    \* response runs)
    proxyRes,       \* the proxyRes object onProxyRes works on
    stage           \* how far onProxyRes got with it

vars == <<visitors, proxyRequests, pc, running, req, hnd, res, upstream, page, out, nav,
          wire, proxyRes, stage>>

reqVars == <<visitors, proxyRequests, pc, running, req, hnd, res, upstream>>
pageVars == <<page, out, nav>>
respVars == <<wire, proxyRes, stage>>

NoRequest ==
    [method |-> "none", ip |-> ClientIp, fingerprint |-> NoFp, follows |-> 0,
     url |-> Absent, hideRefererIn |-> Absent, removeCookiesIn |-> Absent,
     headers |-> [h \in HeaderNames |-> Absent]]

\* visitor: the id the last lookup returned (0: none); trackBlocked and
\* gateBlocked: what the middleware and the handler read as its blocked flag
NoLocals ==
    [visitor |-> 0, trackBlocked |-> FALSE, gated |-> FALSE, gateBlocked |-> FALSE,
     targetUrl |-> Absent, derived |-> FALSE, hideReferer |-> FALSE,
     removeCookiesOption |-> FALSE, logStatus |-> "none"]

NoUpstream ==
    [started |-> FALSE, target |-> "", path |-> "",
     headers |-> [h \in HeaderNames |-> Absent]]

NoPage == [targetUrl |-> "", attr |-> "", quote |-> "", value |-> "", body |-> ""]
NoOut == [done |-> FALSE, threw |-> FALSE, text |-> ""]
NoWire == [status |-> 0, headers |-> NoHeaders, body |-> "", plain |-> Absent]
NoNav == [done |-> FALSE, url |-> Absent, status |-> 0, target |-> "", path |-> ""]

\* a lookup that finds nobody
getVisitorNobody(vs, ipAddress, fingerprint) == 0

\* storage.getVisitorByIpAndFingerprint: the first row with the address and,
\* when a fingerprint is given, the fingerprint; 0 when there is none
getVisitorByIpAndFingerprint(vs, ipAddress, fingerprint) ==
    LET hits == { i \in 1..Len(vs) :
                    /\ vs[i].ipAddress = ipAddress
                    /\ fingerprint # NoFp => vs[i].fingerprint = fingerprint }
    IN IF hits = {} THEN 0 ELSE MinOf(hits)

\* storage.createVisitor
createVisitor(vs, ipAddress, fingerprint) ==
    Append(vs, [ipAddress |-> ipAddress, fingerprint |-> fingerprint, blocked |-> FALSE])

\* isVisitorBlocked
isVisitorBlocked(vs, ipAddress, fingerprint) ==
    LET visitor == getVisitorByIpAndFingerprint(vs, ipAddress, fingerprint) IN
    IF visitor = 0 THEN FALSE ELSE vs[visitor].blocked

Init ==
    /\ visitors = <<>>
    /\ proxyRequests = <<>>
    /\ pc = [r \in Reqs |-> "new"]
    /\ running = 0
    /\ req = [r \in Reqs |-> NoRequest]
    /\ hnd = [r \in Reqs |-> NoLocals]
    /\ res = [r \in Reqs |-> NoResponse]
    /\ upstream = [r \in Reqs |-> NoUpstream]
    /\ page = NoPage
    /\ out = NoOut
    /\ nav = NoNav
    /\ wire = NoWire
    /\ proxyRes = NoWire
    /\ stage = "none"

\* res.status(code).json({message}) and the end of the request
Respond(r, code, message) ==
    /\ res' = [res EXCEPT ![r] = [Sent EXCEPT !.status = code, !.via = "json",
                                             !.message = message]]
    /\ pc' = [pc EXCEPT ![r] = "done"]
    /\ running' = 0

\* request r moves on to the step at
Goto(r, at) ==
    /\ pc' = [pc EXCEPT ![r] = at]
    /\ running' = r

\* a request reaches the server: a fresh GET or POST of /api/proxy, or the GET
\* of the url that the descriptor given to an earlier POST names
Arrive(r) ==
    /\ running = 0
    /\ pc[r] = "new"
    /\ r > 1 => pc[r - 1] # "new"
    /\ \E method \in {"GET", "POST"}, fingerprint \in Fingerprints,
          follows \in {0} \cup { p \in Reqs : pc[p] = "done" /\ res[p].url # Absent } :
          /\ follows # 0 => method = "GET"
          /\ req' = [req EXCEPT ![r] = [NoRequest EXCEPT !.method = method,
                                                         !.fingerprint = fingerprint,
                                                         !.follows = follows]]
    /\ Goto(r, "track")
    /\ UNCHANGED <<visitors, proxyRequests, hnd, res, upstream, pageVars, respVars>>

\* tracking middleware: the lookup
TrackLookup(r) ==
    /\ running = r
    /\ pc[r] = "track"
    /\ LET visitor == getVisitorByIpAndFingerprint(visitors, req[r].ip, req[r].fingerprint)
       IN hnd' = [hnd EXCEPT ![r].visitor = visitor,
                             ![r].trackBlocked = visitor # 0 /\ visitors[visitor].blocked]
    /\ Goto(r, "tracked")
    /\ UNCHANGED <<visitors, proxyRequests, req, res, upstream, pageVars, respVars>>

\* tracking middleware: a known visitor is refused when the row read says
\* blocked (the path is /proxy, not /admin) and passed on otherwise; an
\* unknown one is created and passed on
TrackWrite(r) ==
    /\ running = r
    /\ pc[r] = "tracked"
    /\ IF hnd[r].visitor # 0
       THEN /\ IF hnd[r].trackBlocked
               THEN Respond(r, 403, "Access blocked by administrator")
               ELSE /\ Goto(r, "handler")
                    /\ UNCHANGED res
            /\ UNCHANGED visitors
       ELSE /\ visitors' = createVisitor(visitors, req[r].ip, req[r].fingerprint)
            /\ Goto(r, "handler")
            /\ UNCHANGED res
    /\ UNCHANGED <<proxyRequests, req, hnd, upstream, pageVars, respVars>>

\* the query string a browser sends when it navigates to link on the proxy
BrowserQuery(link) == ParseURL(link, ParseURL(OwnHost \o "/", NoBase)).query

\* the parameters a request carries, <<url, hideReferer, removeCookies>>: those
\* of the descriptor it follows, or any of the inputs of its method
CarriedBy(q) ==
    { <<QueryGet(q, "url"), QueryGet(q, "hideReferer"), QueryGet(q, "removeCookies")>> }

Carried(r) ==
    IF req[r].follows # 0
    THEN CarriedBy(BrowserQuery(res[req[r].follows].url))
    ELSE UrlInputs \X (IF req[r].method = "GET" THEN QueryFlagInputs ELSE BodyFlagInputs)
                   \X (IF req[r].method = "GET" THEN QueryFlagInputs ELSE BodyFlagInputs)

\* req.query.x === 'true' for a GET, req.body.x === true for a POST
FlagOf(method, value) == IF method = "GET" THEN value = "true" ELSE value = JTrue

\* createProxyHandler up to the gate: the url is read and validated, the
\* visitor is looked up, and the options are read when the gate lets it pass
Handler(r) ==
    /\ running = r
    /\ pc[r] = "handler"
    /\ \E params \in Carried(r) :
          LET url == params[1]
              hideRefererIn == params[2]
              removeCookiesIn == params[3]
          IN
          /\ req' = [req EXCEPT ![r].url = url,
                                ![r].hideRefererIn = hideRefererIn,
                                ![r].removeCookiesIn = removeCookiesIn]
          /\ IF url = Absent \/ url = ""
             THEN /\ Respond(r, 400, "No URL provided")
                  /\ hnd' = [hnd EXCEPT ![r].targetUrl = url]
             ELSE IF ~ParseURL(url, NoBase).ok
             THEN /\ Respond(r, 400, "Invalid URL format")
                  /\ hnd' = [hnd EXCEPT ![r].targetUrl = url]
             ELSE LET blocked == isVisitorBlocked(visitors, req[r].ip, req[r].fingerprint)
                  IN /\ hnd' = [hnd EXCEPT
                          ![r].targetUrl = url,
                          ![r].gated = TRUE,
                          ![r].gateBlocked = blocked,
                          ![r].derived = ~blocked,
                          ![r].hideReferer = ~blocked /\ FlagOf(req[r].method, hideRefererIn),
                          ![r].removeCookiesOption =
                              ~blocked /\ FlagOf(req[r].method, removeCookiesIn),
                          ![r].logStatus = IF blocked THEN "blocked" ELSE "success"]
                     /\ Goto(r, "log")
                     /\ UNCHANGED res
    /\ UNCHANGED <<visitors, proxyRequests, upstream, pageVars, respVars>>

\* logProxyRequest: the lookup
LogLookup(r) ==
    /\ running = r
    /\ pc[r] = "log"
    /\ hnd' = [hnd EXCEPT ![r].visitor =
                 getVisitorByIpAndFingerprint(visitors, req[r].ip, req[r].fingerprint)]
    /\ Goto(r, "logged")
    /\ UNCHANGED <<visitors, proxyRequests, req, res, upstream, pageVars, respVars>>

\* the row logProxyRequest inserts; req.body of a GET is the empty object.
\* rid (the request it belongs to) and late (the response was already given
\* when it was inserted) are for the record
LogEntry(r, visitorId) ==
    [rid |-> r, visitorId |-> visitorId, url |-> hnd[r].targetUrl,
     status |-> hnd[r].logStatus,
     hideReferer |-> req[r].method = "POST" /\ req[r].hideRefererIn = JTrue,
     removeCookies |-> req[r].method = "POST" /\ req[r].removeCookiesIn = JTrue,
     late |-> res[r].status # 0]

\* logProxyRequest from the lookup on (the visitor is created when the lookup
\* found none, the row is inserted), and what the handler does once the call
\* it awaits returns: the 403 of the gate, the descriptor of a POST, or the
\* start of the upstream request of a GET.  The call made by onError is not
\* awaited, so nothing follows it.
LogWrite(r) ==
    /\ running = r
    /\ pc[r] = "logged"
    /\ LET created == hnd[r].visitor = 0
           vs == IF created
                 THEN createVisitor(visitors, req[r].ip, req[r].fingerprint)
                 ELSE visitors
           visitorId == IF created THEN Len(vs) ELSE hnd[r].visitor
       IN /\ visitors' = vs
          /\ proxyRequests' = Append(proxyRequests, LogEntry(r, visitorId))
    /\ CASE hnd[r].logStatus = "blocked" ->
              /\ Respond(r, 403, "Access blocked by administrator")
              /\ UNCHANGED <<req, upstream>>
         [] hnd[r].logStatus = "success" /\ req[r].method = "POST" ->
              /\ res' = [res EXCEPT ![r] =
                   [Sent EXCEPT
                      !.status = 200, !.via = "json",
                      !.message = "Proxy request successful",
                      !.url = RedirectUrl(hnd[r].targetUrl, hnd[r].hideReferer,
                                          hnd[r].removeCookiesOption)]]
              /\ pc' = [pc EXCEPT ![r] = "done"]
              /\ running' = 0
              /\ UNCHANGED <<req, upstream>>
         [] hnd[r].logStatus = "success" /\ req[r].method = "GET" ->
              /\ \E headers \in HeaderInputs :
                    /\ req' = [req EXCEPT ![r].headers = headers]
                    /\ upstream' = [upstream EXCEPT ![r] =
                         [started |-> TRUE,
                          target |-> ProxyTarget(hnd[r].targetUrl),
                          path |-> pathRewrite(req[r].url, hnd[r].targetUrl),
                          headers |-> onProxyReq(headers, hnd[r].hideReferer,
                                                 hnd[r].removeCookiesOption)]]
              /\ pc' = [pc EXCEPT ![r] = "fetching"]
              /\ running' = 0
              /\ UNCHANGED res
         [] hnd[r].logStatus = "error" ->
              /\ pc' = [pc EXCEPT ![r] = "done"]
              /\ running' = 0
              /\ UNCHANGED <<req, res, upstream>>
    /\ UNCHANGED <<hnd, pageVars, respVars>>

\* onError: the upstream request fails; logProxyRequest is started for the
\* error entry and the 500 is written and ended without waiting for it
OnError(r) ==
    /\ running = 0
    /\ pc[r] = "fetching"
    /\ hnd' = [hnd EXCEPT ![r].logStatus = "error"]
    /\ res' = [res EXCEPT ![r] = onError(res[r])]
    /\ Goto(r, "log")
    /\ UNCHANGED <<visitors, proxyRequests, req, upstream, pageVars, respVars>>

\* onProxyRes: the upstream server answers and the answer is delivered
OnProxyRes(r) ==
    /\ running = 0
    /\ pc[r] = "fetching"
    /\ \E up \in UpstreamResponses :
          res' = [res EXCEPT ![r] = onProxyRes(up, hnd[r].targetUrl,
                                               hnd[r].removeCookiesOption, ProxyBaseUrl)]
    /\ pc' = [pc EXCEPT ![r] = "done"]
    /\ UNCHANGED <<visitors, proxyRequests, running, req, hnd, upstream, pageVars, respVars>>

\* storage.updateVisitorBlockStatus, as the admin block endpoint calls it
updateVisitorBlockStatus(vs, id, blocked) == [vs EXCEPT ![id].blocked = blocked]

\* POST /api/admin/visitors/:id/block with body {blocked}
AdminBlock(id, blocked) ==
    /\ running = 0
    /\ id \in 1..Len(visitors)
    /\ visitors[id].blocked # blocked
    /\ visitors' = updateVisitorBlockStatus(visitors, id, blocked)
    /\ UNCHANGED <<proxyRequests, pc, running, req, hnd, res, upstream, pageVars, respVars>>

Next ==
    \/ \E r \in Reqs : Arrive(r)
    \/ \E r \in Reqs : TrackLookup(r)
    \/ \E r \in Reqs : TrackWrite(r)
    \/ \E r \in Reqs : Handler(r)
    \/ \E r \in Reqs : LogLookup(r)
    \/ \E r \in Reqs : LogWrite(r)
    \/ \E r \in Reqs : OnError(r)
    \/ \E r \in Reqs : OnProxyRes(r)
    \/ \E id \in 1..(2 * NumReqs), blocked \in BOOLEAN : AdminBlock(id, blocked)

Spec == Init /\ [][Next]_vars

(***************************************************************************)
(* The rewriting runs: one document, served from a target URL, goes        *)
(* through the rewriter of onProxyRes, and the browser then follows the    *)
(* link of the rewritten document with a GET to the proxy.                 *)
(***************************************************************************)
\* the target URLs the documents are served from
TargetUrls == {"https://example.com/page", "http://a.test/d/p?x=1"}

\* where a link stands: an attribute of an element, or url() of a style rule
LinkKinds == {"src", "href", "action", "url"}

\* the quote around the link; url() may have none
QuoteInputs == {"\"", "'", ""}

\* the links of the documents
LinkValues ==
    {"/path?a=1", "x.png", "../up", "?q=1", "a#f",
     "#frag", "data:x", "mailto:a", "javascript:void(0)", "about:blank",
     "https://other.com/x", "//cdn/x",
     "", "/wiki/a(b)", "a b", "tel:123", "chrome-extension://c/x",
     "javascript:i.src='a.png'"}

\* the element that carries the attribute
TagOf(attr) ==
    IF attr \in {"src", "srcset"} THEN "img" ELSE IF attr = "action" THEN "form" ELSE "a"

\* the text before and after the link
PagePrefix(attr, quote) ==
    IF attr = "url" THEN "p{b:url(" \o quote
    ELSE "<" \o TagOf(attr) \o " id=" \o quote \o "k" \o quote \o " "
         \o attr \o "=" \o quote

PageSuffix(attr, quote) ==
    IF attr = "url" THEN quote \o ")}"
    ELSE quote \o " class=" \o quote \o "c" \o quote \o ">"

PageOf(targetUrl, attr, quote, value) ==
    [targetUrl |-> targetUrl, attr |-> attr, quote |-> quote, value |-> value,
     body |-> PagePrefix(attr, quote) \o value \o PageSuffix(attr, quote)]

\* the documents: a link is quoted in an attribute, and holds neither its own
\* quote nor, when url() has no quote, a character that ends url()
WellFormed(attr, quote, value) ==
    /\ attr # "url" => quote # ""
    /\ quote # "" => ~Contains(value, quote)
    /\ quote = "" => CharsOf(value) \cap ValueStop = {}

\* the values of the srcset attributes of the documents
SrcsetValues ==
    {"a.png 1x, b.png 2x", "/i/a.png 480w", "data:x 1x, c.png 2x", "//cdn.test/a.png 2x",
     "a.png  1x,b.png", "#x 1x, mailto:a 2x"}

Pages ==
    { PageOf(p[1], p[2], p[3], p[4]) :
        p \in { x \in TargetUrls \X LinkKinds \X QuoteInputs \X LinkValues :
                  WellFormed(x[2], x[3], x[4]) }
             \cup (TargetUrls \X {"srcset"} \X {"\"", "'"} \X SrcsetValues) }

InitRewrite ==
    /\ visitors = <<>>
    /\ proxyRequests = <<>>
    /\ pc = [r \in Reqs |-> "new"]
    /\ running = 0
    /\ req = [r \in Reqs |-> NoRequest]
    /\ hnd = [r \in Reqs |-> NoLocals]
    /\ res = [r \in Reqs |-> NoResponse]
    /\ upstream = [r \in Reqs |-> NoUpstream]
    /\ page \in Pages
    /\ out = NoOut
    /\ nav = NoNav
    /\ wire = NoWire
    /\ proxyRes = NoWire
    /\ stage = "none"

RewriteDone(r) == [done |-> TRUE, threw |-> r.threw, text |-> r.text]

\* onProxyRes rewrites the decoded text of the document
Rewrite ==
    /\ ~out.done
    /\ out' = RewriteDone(RewriteBody(page.body, page.targetUrl, ProxyBaseUrl,
                                      page.attr # "url"))
    /\ UNCHANGED <<reqVars, page, nav, respVars>>

\* the link the browser reads at the link's place in the text: from behind
\* the prefix to the quote, or for url() without one to the closing parenthesis
LinkEnd(text, quote, from) ==
    IndexFrom(text, IF quote = "" THEN {")"} ELSE {quote}, from)

LinkAt(text, from, end) == IF end = 0 THEN From(text, from) ELSE Sub(text, from, end - 1)

LinkIn(text, attr, quote) ==
    LinkAt(text, Len(PagePrefix(attr, quote)) + 1,
           LinkEnd(text, quote, Len(PagePrefix(attr, quote)) + 1))

\* the GET handler on the url parameter: validation, options.target and
\* options.pathRewrite
NavigateTo(url, u) ==
    IF url = Absent \/ url = "" \/ ~u.ok
    THEN [done |-> TRUE, url |-> url, status |-> 400, target |-> "", path |-> ""]
    ELSE [done |-> TRUE, url |-> url, status |-> 200, target |-> ProxyTarget(url),
          path |-> pathRewrite(url, url)]

Navigate(url) == NavigateTo(url, ParseURL(IF url = Absent THEN "" ELSE url, NoBase))

\* the browser requests the link of the rewritten document when it points to
\* the proxy
FollowLink ==
    /\ page.attr \in LinkKinds
    /\ out.done
    /\ ~out.threw
    /\ ~nav.done
    /\ StartsWith(LinkIn(out.text, page.attr, page.quote), ProxyBaseUrl)
    /\ nav' = Navigate(QueryGet(BrowserQuery(LinkIn(out.text, page.attr, page.quote)),
                                "url"))
    /\ UNCHANGED <<reqVars, page, out, respVars>>

NextRewrite ==
    \/ Rewrite
    \/ FollowLink

SpecRewrite == InitRewrite /\ [][NextRewrite]_vars


(***************************************************************************)
(* The response runs: the GET of one visitor has started its upstream      *)
(* request, and the upstream server answers.  onProxyRes works in stages:  *)
(* on the response head it changes proxyRes.headers and either writes the  *)
(* head and pipes the body, or buffers the body and decodes, rewrites and  *)
(* emits it at its end.  The upstream request can fail at every stage.     *)
(***************************************************************************)
\* the request of the exchange
Rx == 1

ResponseTargets == {"http://a.test/d/p?x=1"}

StatusInputs == {201, 404}

LocationInputs == {Absent, "/login", "http://o.test/x", "next"}

ContentTypeInputs ==
    {Absent, "image/png", "text/html", "text/html; charset=utf-8",
     "text/html; charset=iso-8859-1", "text/css; charset=latin1",
     "application/javascript"}

\* bodies: with U+00E9 in UTF-8 and in latin1, with a link that does not
\* resolve before one that does, and without text
BodyInputs ==
    {"<a href='/x'>caf" \o XC3 \o XA9 \o "</a>",
     "<a href='/x'>caf" \o XE9 \o "</a>",
     "<a href='https:'>a</a><a href='/y'>b</a>",
     "PNG" \o XEF}

\* the bytes of a compressed body, which only zlib can read
Compressed == XEF \o XBF \o "z" \o XBD

\* how the body travels: as it is, compressed under the name gzip or under
\* its alias x-gzip, or with a Content-Encoding under which it does not
\* decompress
Transfers == {"identity", "gzip", "x-gzip", "broken"}

WireOf(status, location, contentType, body, transfer) ==
    [status |-> status,
     headers |-> [NoHeaders EXCEPT
                    !.location = location,
                    !.setCookie = "t=1",
                    !.contentType = contentType,
                    !.contentEncoding = IF transfer = "identity" THEN Absent
                                        ELSE IF transfer = "x-gzip" THEN "x-gzip"
                                        ELSE "gzip",
                    !.contentLength = IF transfer \in {"gzip", "x-gzip"}
                                      THEN Len(Compressed) ELSE Len(body)],
     body |-> IF transfer \in {"gzip", "x-gzip"} THEN Compressed ELSE body,
     plain |-> IF transfer \in {"gzip", "x-gzip"} THEN body ELSE Absent]

ResponseInputs ==
    { WireOf(x[1], x[2], x[3], x[4], x[5]) :
        x \in StatusInputs \X LocationInputs \X ContentTypeInputs \X BodyInputs
              \X Transfers }

\* the GET of the exchange as the handler left it when it started proxying
ExchangeRequest(targetUrl, removeCookies, headers) ==
    [NoRequest EXCEPT !.method = "GET", !.url = targetUrl,
                      !.removeCookiesIn = removeCookies, !.headers = headers]

ExchangeLocals(targetUrl, removeCookies) ==
    [NoLocals EXCEPT !.visitor = 1, !.gated = TRUE, !.targetUrl = targetUrl,
                     !.derived = TRUE, !.removeCookiesOption = (removeCookies = "true"),
                     !.logStatus = "success"]

ExchangeUpstream(targetUrl, removeCookies, headers) ==
    [started |-> TRUE, target |-> ProxyTarget(targetUrl),
     path |-> pathRewrite(targetUrl, targetUrl),
     headers |-> onProxyReq(headers, FALSE, removeCookies = "true")]

InitResponse ==
    /\ \E targetUrl \in ResponseTargets, removeCookies \in QueryFlagInputs,
          headers \in HeaderInputs :
          /\ req = [r \in Reqs |-> IF r = Rx
                                   THEN ExchangeRequest(targetUrl, removeCookies, headers)
                                   ELSE NoRequest]
          /\ hnd = [r \in Reqs |-> IF r = Rx THEN ExchangeLocals(targetUrl, removeCookies)
                                   ELSE NoLocals]
          /\ upstream = [r \in Reqs |->
                           IF r = Rx
                           THEN ExchangeUpstream(targetUrl, removeCookies, headers)
                           ELSE NoUpstream]
          /\ proxyRequests =
                <<[rid |-> Rx, visitorId |-> 1, url |-> targetUrl, status |-> "success",
                   hideReferer |-> FALSE, removeCookies |-> FALSE, late |-> FALSE]>>
    /\ visitors = createVisitor(<<>>, ClientIp, NoFp)
    /\ pc = [r \in Reqs |-> IF r = Rx THEN "fetching" ELSE "new"]
    /\ running = 0
    /\ res = [r \in Reqs |-> NoResponse]
    /\ page = NoPage
    /\ out = NoOut
    /\ nav = NoNav
    /\ wire \in ResponseInputs
    /\ proxyRes = wire
    /\ stage = "response"

\* onProxyRes up to the branch on the content type: Location and set-cookie
\* are changed in proxyRes.headers; a response that is not text has its head
\* written and its body piped, a text response is buffered
OnProxyResHead(r) ==
    /\ running = 0
    /\ pc[r] = "fetching"
    /\ stage = "response"
    /\ proxyRes' = [proxyRes EXCEPT
                      !.headers = MutatedHeaders(proxyRes, hnd[r].targetUrl,
                                                 hnd[r].removeCookiesOption, ProxyBaseUrl)]
    /\ IF IsTextual(proxyRes.headers.contentType)
       THEN /\ stage' = "buffering"
            /\ UNCHANGED res
       ELSE /\ stage' = "piping"
            /\ res' = [res EXCEPT ![r] = WriteHead(res[r], proxyRes, proxyRes'.headers)]
    /\ UNCHANGED <<visitors, proxyRequests, pc, running, req, hnd, upstream, pageVars, wire>>

\* proxyRes.pipe(res) has delivered the body and ended the response
PipeEnd(r) ==
    /\ running = 0
    /\ pc[r] = "fetching"
    /\ stage = "piping"
    /\ res' = [res EXCEPT ![r].body = proxyRes.body, ![r].ended = TRUE]
    /\ pc' = [pc EXCEPT ![r] = "done"]
    /\ stage' = "ended"
    /\ UNCHANGED <<visitors, proxyRequests, running, req, hnd, upstream, pageVars, wire,
                   proxyRes>>

\* the end handler of a buffered body: decode, rewrite and emit, or the
\* fallback of its catch
BufferEnd(r) ==
    /\ running = 0
    /\ pc[r] = "fetching"
    /\ stage = "buffering"
    /\ res' = [res EXCEPT ![r] = OnProxyResWith(proxyRes, proxyRes.headers,
                                                hnd[r].targetUrl, ProxyBaseUrl)]
    /\ pc' = [pc EXCEPT ![r] = "done"]
    /\ stage' = "ended"
    /\ UNCHANGED <<visitors, proxyRequests, running, req, hnd, upstream, pageVars, wire,
                   proxyRes>>

NextResponse ==
    \/ OnProxyResHead(Rx)
    \/ PipeEnd(Rx)
    \/ BufferEnd(Rx)
    \/ OnError(Rx)
    \/ LogLookup(Rx)
    \/ LogWrite(Rx)

SpecResponse == InitResponse /\ [][NextResponse]_vars

(***************************************************************************)
(* Properties of the proxy endpoint.                                       *)
(***************************************************************************)

\* the log entries (their positions in the table) written for request r
Entries(r) == { i \in 1..Len(proxyRequests) : proxyRequests[i].rid = r }

\* the rows of the visitors table that request r identifies: its address and,
\* when it carries one, its fingerprint
RowsOf(r) ==
    { i \in 1..Len(visitors) :
        /\ visitors[i].ipAddress = req[r].ip
        /\ req[r].fingerprint # NoFp => visitors[i].fingerprint = req[r].fingerprint }

\* the blocked flag the table holds for request r: that of its first row
StoredBlocked(r) ==
    \E i \in RowsOf(r) : visitors[i].blocked /\ \A j \in RowsOf(r) : i <= j

\* request r was refused by a gate
Refused(r) == hnd[r].trackBlocked \/ hnd[r].gateBlocked

\* C1 as steps: a gate reads, in the step it takes, the blocked flag the table
\* holds at that moment; and a request a gate found blocked has no upstream
\* request and no redirect descriptor, and its response, once given, is a 403
C1Step ==
    \A r \in Reqs :
       /\ (pc[r] = "track" /\ pc'[r] = "tracked")
             => (hnd'[r].trackBlocked <=> StoredBlocked(r))
       /\ (pc[r] = "handler" /\ hnd'[r].gated)
             => (hnd'[r].gateBlocked <=> StoredBlocked(r))
       /\ (hnd'[r].trackBlocked \/ hnd'[r].gateBlocked)
             => /\ ~upstream'[r].started
                /\ res'[r].url = Absent
                /\ res'[r].status \in {0, 403}
                /\ pc'[r] = "done" => res'[r].status = 403

\* C1: every request whose visitor record is marked blocked when the request
\* is gated is answered 403, with no upstream fetch and no redirect
\* descriptor; the flag is read from storage on each request, so an admin
\* block or unblock decides the very next request
C1_BlockedVisitorRefused == [][C1Step]_vars

\* a second request is refused with a 403 after the admin endpoint blocked
\* the visitor that the first request created
C1_Witness ==
    \E r \in Reqs :
       /\ r > 1
       /\ pc[r] = "done"
       /\ Refused(r)
       /\ res[r].status = 403
       /\ req[r].method = "POST"

\* C2: every proxy request made by a blocked visitor appends exactly one
\* activity-log entry, with status blocked, and no other entry
C2_BlockedLoggedOnce ==
    \A r \in Reqs :
       (pc[r] = "done" /\ Refused(r))
          => /\ Cardinality(Entries(r)) = 1
             /\ \A i \in Entries(r) : proxyRequests[i].status = "blocked"

\* an absolute URL whose scheme is http or https
IsHttpUrl(url) ==
    /\ url # Absent
    /\ ParseURL(url, NoBase).ok
    /\ ParseURL(url, NoBase).scheme \in {"http", "https"}

\* request r reached the URL validation of the handler
Validated(r) == hnd[r].gated \/ (pc[r] = "done" /\ res[r].status = 400)

\* C3: URL validation accepts exactly the absolute URLs whose scheme is http
\* or https; every other input is answered with a 400 and causes no upstream
\* call
C3_OnlyHttpAccepted ==
    \A r \in Reqs :
       Validated(r) =>
          IF IsHttpUrl(req[r].url)
          THEN res[r].status # 400
          ELSE ~upstream[r].started /\ res[r].status \in {0, 400}

\* C4: each proxy request appends at most one activity-log entry, and a
\* request that ends in success, blocked or error has exactly one
C4_OneEntryPerRequest ==
    \A r \in Reqs :
       /\ Cardinality(Entries(r)) <= 1
       /\ (pc[r] = "done" /\ hnd[r].gated) => Cardinality(Entries(r)) = 1

\* the terminal state request r reached, from the response it was given
Outcome(r) ==
    IF res[r].status = 403 THEN "blocked"
    ELSE IF res[r].via = "json" /\ res[r].status = 500 THEN "error"
    ELSE "success"

\* C5: the log entry of a request carries the status of the terminal state
\* the request reached, and it was written before the response was finalized
C5_EntryMatchesOutcome ==
    \A i \in 1..Len(proxyRequests) :
       /\ ~proxyRequests[i].late
       /\ pc[proxyRequests[i].rid] = "done"
             => proxyRequests[i].status = Outcome(proxyRequests[i].rid)

\* C6: a POST never fetches upstream and is answered with a descriptor whose
\* url starts with /api/proxy?; the GET of that url derives the target URL,
\* hideReferer and removeCookies that the POST derived
C6_DescriptorRoundTrip ==
    \A r \in Reqs :
       /\ req[r].method = "POST" => ~upstream[r].started
       /\ (req[r].method = "POST" /\ hnd[r].derived /\ pc[r] = "done")
             => /\ res[r].status = 200
                /\ res[r].url # Absent
                /\ StartsWith(res[r].url, "/api/proxy?")
       /\ res[r].url # Absent => (req[r].method = "POST" /\ hnd[r].derived)
       /\ \A g \in Reqs :
             (req[g].follows = r /\ pc[g] \notin {"new", "track", "tracked", "handler"}
              /\ ~hnd[g].trackBlocked)
                => /\ hnd[g].targetUrl = hnd[r].targetUrl
                   /\ hnd[g].derived
                         => /\ hnd[g].hideReferer = hnd[r].hideReferer
                            /\ hnd[g].removeCookiesOption = hnd[r].removeCookiesOption

\* a GET that follows a descriptor carrying both flags and a target URL with
\* a query of two parameters and a fragment has derived its parameters
C6_Witness ==
    \E g \in Reqs :
       /\ req[g].follows # 0
       /\ hnd[g].derived
       /\ hnd[g].hideReferer
       /\ hnd[g].removeCookiesOption
       /\ Contains(hnd[g].targetUrl, "&")
       /\ Contains(hnd[g].targetUrl, "#")

\* C7: with hideReferer set the upstream request has no referer and no origin
\* header; with removeCookies set it has no cookie header and the response
\* delivers no set-cookie; the headers of an unset flag are forwarded unchanged
C7_HeaderStripping ==
    \A r \in Reqs :
       upstream[r].started =>
          /\ IF req[r].hideRefererIn = "true"
             THEN /\ upstream[r].headers["referer"] = Absent
                  /\ upstream[r].headers["origin"] = Absent
             ELSE /\ upstream[r].headers["referer"] = req[r].headers["referer"]
                  /\ upstream[r].headers["origin"] = req[r].headers["origin"]
          /\ IF req[r].removeCookiesIn = "true"
             THEN /\ upstream[r].headers["cookie"] = Absent
                  /\ res[r].headers.setCookie = Absent
             ELSE upstream[r].headers["cookie"] = req[r].headers["cookie"]

\* a GET with removeCookies set and hideReferer unset was answered from an
\* upstream response that set a cookie: referer went upstream, cookie did not
C7_Witness ==
    \E r \in Reqs :
       /\ pc[r] = "done"
       /\ res[r].via = "passthrough"
       /\ req[r].removeCookiesIn = "true"
       /\ req[r].hideRefererIn = Absent
       /\ upstream[r].headers["referer"] # Absent
       /\ req[r].headers["cookie"] # Absent
       /\ upstream[r].headers["cookie"] = Absent

(***************************************************************************)
(* Properties of the link rewriter.                                        *)
(***************************************************************************)
\* the link starts with scheme://
HasAbsoluteScheme(value) ==
    SchemeEnd(value) > 0 /\ StartsWithAt(value, "//", SchemeEnd(value) + 1)

\* the skip list: data:, mailto:, #, javascript:, about:, scheme:// and //
OnSkipList(value) ==
    \/ \E p \in {"data:", "mailto:", "#", "javascript:", "about:", "//"} :
          StartsWith(ToLower(value), p)
    \/ HasAbsoluteScheme(value)

\* the absolute URL the link of the page resolves to, against the full
\* target URL of the page
Resolved == ParseURL(page.value, ParseURL(page.targetUrl, NoBase))

\* C8: in a rewritten text every quoted src, href or action value that is
\* not on the skip list is replaced by <own-host>/api/proxy?url= followed by
\* the percent-encoding of the value resolved against the full target URL,
\* the attribute name and the quotes kept (a value is a non-empty one here)
C8_EveryLinkRewritten ==
    (out.done /\ page.attr \in {"src", "href", "action"} /\ page.value # ""
     /\ ~OnSkipList(page.value))
       => /\ ~out.threw
          /\ out.text = PagePrefix(page.attr, page.quote)
                        \o OwnHost \o "/api/proxy?url="
                        \o encodeURIComponent(UrlHref(Resolved))
                        \o PageSuffix(page.attr, page.quote)

\* C9: an attribute or url() value on the skip list is never rewritten: the
\* text at the place of the value is the same in the output as in the input
C9_SkipListedUnchanged ==
    (out.done /\ page.attr \in LinkKinds /\ OnSkipList(page.value))
       => /\ ~out.threw
          /\ LinkIn(out.text, page.attr, page.quote) = page.value

\* C10: the GET of a rewritten link has the absolute URL the link resolved to
\* as its url parameter, and its upstream request goes to the origin of that
\* URL with the path and query string of that URL
C10_RoundTrip ==
    nav.done
       => /\ nav.url = UrlHref(Resolved)
          /\ nav.status = 200
          /\ Resolved.hasHost
          /\ nav.target = Resolved.scheme \o "://" \o Resolved.host
                          \o (IF Resolved.port = "" THEN "" ELSE ":" \o Resolved.port)
          /\ nav.path = Resolved.path
                        \o (IF Resolved.query = "" THEN "" ELSE "?" \o Resolved.query)

\* the proxied form of a link of the page: <own-host>/api/proxy?url= and the
\* percent-encoding of the link resolved against the target URL of the page
ProxiedForm(link) ==
    OwnHost \o "/api/proxy?url="
    \o encodeURIComponent(UrlHref(ParseURL(link, ParseURL(page.targetUrl, NoBase))))

\* C11: every CSS url() reference whose value is not on the skip list is
\* rewritten to the proxied form of its resolution against the target URL,
\* whether it is single-quoted, double-quoted or unquoted
C11_CssUrlRewritten ==
    (out.done /\ page.attr = "url" /\ page.value # "" /\ ~OnSkipList(page.value))
       => /\ ~out.threw
          /\ out.text = PagePrefix(page.attr, page.quote) \o ProxiedForm(page.value)
                        \o PageSuffix(page.attr, page.quote)

\* the value of the srcset attribute as an HTML parser reads it from the text,
\* the attribute's "=" being at position eq: quoted up to the same quote,
\* unquoted up to whitespace or ">"
AttrValueAt(text, eq) ==
    IF Ch(text, eq + 1) \in {"\"", "'"}
    THEN LinkAt(text, eq + 2, IndexFrom(text, {Ch(text, eq + 1)}, eq + 2))
    ELSE LinkAt(text, eq + 1, IndexFrom(text, WhiteSpace \cup {">"}, eq + 1))

\* the candidates of a srcset value: for each comma-separated, non-empty
\* candidate its whitespace-delimited tokens, the URL first
CandidatesOf(entries) ==
    [ i \in 1..Len(entries) |->
        SplitWs(TrimRight(TrimLeft(entries[i], WhiteSpace), WhiteSpace)) ]

NonEmptyCandidate(c) == c # <<"">>

Candidates(value) == SelectSeq(CandidatesOf(SplitOn(value, ",")), NonEmptyCandidate)

\* candidate got is candidate given with its URL in proxied form, or the same
\* URL when that is on the skip list, and with the same descriptor
CandidateRewritten(given, got) ==
    /\ Tail(got) = Tail(given)
    /\ Head(got) = IF OnSkipList(Head(given)) THEN Head(given)
                   ELSE ProxiedForm(Head(given))

SrcsetRewritten(given, got) ==
    /\ Len(got) = Len(given)
    /\ \A i \in 1..Len(given) : CandidateRewritten(given[i], got[i])

\* C12: in each srcset attribute the URL of every candidate is rewritten to
\* proxied form under the skip rules of src/href, and every candidate keeps
\* its width or density descriptor
C12_SrcsetRewritten ==
    (out.done /\ page.attr = "srcset")
       => /\ ~out.threw
          /\ SrcsetRewritten(
                Candidates(page.value),
                Candidates(AttrValueAt(out.text,
                                       Len(PagePrefix(page.attr, page.quote)) - 1)))

(***************************************************************************)
(* Properties of the response pipeline.                                    *)
(***************************************************************************)
\* onProxyRes has delivered the whole upstream response of the exchange
Delivered == pc[Rx] = "done" /\ stage = "ended"

\* <own-host>/api/proxy?url= and the percent-encoding of location resolved
\* against base
ProxiedLocation(location, base) ==
    OwnHost \o "/api/proxy?url="
    \o encodeURIComponent(UrlHref(ParseURL(location, ParseURL(base, NoBase))))

\* C13: whenever the upstream response carries a Location header, the
\* delivered response carries a Location header equal to
\* <own-host>/api/proxy?url= plus the percent-encoding of that target made
\* absolute, for text and non-text responses alike (a relative target may be
\* resolved against the target URL or against its origin)
C13_LocationRewritten ==
    (Delivered /\ wire.headers.location # Absent)
       => res[Rx].headers.location
             \in {ProxiedLocation(wire.headers.location, hnd[Rx].targetUrl),
                  ProxiedLocation(wire.headers.location,
                                  ProxyTarget(hnd[Rx].targetUrl))}

\* the bytes of the upstream body once decompressed
PlainOf(w) == IF IsCompressed(w.headers.contentEncoding) THEN w.plain ELSE w.body

\* the text the rewriter makes of the upstream body, decoded with charset
RewrittenText(w, charset) ==
    RewriteBody(Decode(PlainOf(w), charset), hnd[Rx].targetUrl, ProxyBaseUrl,
                Contains(w.headers.contentType, "text/html")).text

\* C14: a response emitted on the text path has no Content-Encoding and no
\* Transfer-Encoding header, a Content-Length equal to the byte length of the
\* re-encoded rewritten text, which is its body, and the upstream status
C14_TextPathFraming ==
    (pc[Rx] = "done" /\ res[Rx].via = "rewritten")
       => /\ res[Rx].headers.contentEncoding = Absent
          /\ res[Rx].headers.transferEncoding = Absent
          /\ res[Rx].body = Encode(RewrittenText(wire, CharsetOf(wire.headers.contentType)),
                                   CharsetOf(wire.headers.contentType))
          /\ res[Rx].headers.contentLength = Len(res[Rx].body)
          /\ res[Rx].status = wire.status

\* a gzip-encoded page with a byte that is not valid UTF-8 was decoded and
\* rewritten: the replacement character takes three bytes of the body
C14_Witness ==
    /\ pc[Rx] = "done"
    /\ res[Rx].via = "rewritten"
    /\ wire.headers.contentEncoding = "gzip"
    /\ wire.status = 404
    /\ Contains(res[Rx].body, XEF \o XBF \o XBD)
    /\ Contains(res[Rx].body, ProxyBaseUrl)
    /\ res[Rx].headers.contentLength > Len(wire.plain)

\* the upstream headers after the cookie removal the request asked for
CookiesRemoved(headers) ==
    IF hnd[Rx].removeCookiesOption THEN [headers EXCEPT !.setCookie = Absent] ELSE headers

PassedThrough == Delivered /\ ~IsTextual(wire.headers.contentType)

DecodeFails(w) ==
    /\ IsTextual(w.headers.contentType)
    /\ IsCompressed(w.headers.contentEncoding)
    /\ w.plain = Absent

\* C16: when decompression of a buffered text body fails the request is not
\* aborted: the visitor receives the upstream status, the original upstream
\* headers and the complete original encoded body bytes
C16_DecodeFailureFallsBack ==
    (Delivered /\ DecodeFails(wire))
       => /\ res[Rx].ended
          /\ res[Rx].status = wire.status
          /\ res[Rx].headers = wire.headers
          /\ res[Rx].body = wire.body

\* the log has an error entry of the exchange
ErrorLogged ==
    \E i \in 1..Len(proxyRequests) :
       /\ proxyRequests[i].rid = Rx
       /\ proxyRequests[i].status = "error"
       /\ proxyRequests[i].url = hnd[Rx].targetUrl

\* the step in which onError answers the failure of the upstream request
OnErrorAnswers ==
    (pc[Rx] = "fetching" /\ pc'[Rx] = "log")
       => IF res[Rx].heads = 0
          THEN /\ res'[Rx].status = 500
               /\ res'[Rx].via = "json"
               /\ res'[Rx].message = "Proxy error"
               /\ res'[Rx].headers.contentType = "application/json"
               /\ res'[Rx].heads = 1
               /\ res'[Rx].ended
          ELSE res'[Rx] = [res[Rx] EXCEPT !.ended = TRUE]

\* C17: an upstream failure is logged with status error and, when no response
\* headers were sent yet, answered with status 500 and the JSON error body;
\* when headers were already sent the response is only ended.  In every path
\* of a request the response headers are written at most once
C17_UpstreamFailure ==
    /\ [](res[Rx].heads <= 1)
    /\ []((pc[Rx] = "done" /\ hnd[Rx].logStatus = "error") => ErrorLogged)
    /\ [][OnErrorAnswers]_vars

\* the upstream failed while a passed-through body was streaming: the head
\* written once stays, the response is ended short and the failure is logged
C17_Witness ==
    /\ pc[Rx] = "done"
    /\ hnd[Rx].logStatus = "error"
    /\ ErrorLogged
    /\ res[Rx].via = "passthrough"
    /\ res[Rx].status = wire.status
    /\ res[Rx].heads = 1
    /\ res[Rx].ended
    /\ res[Rx].body = ""

\* whether rewriting the upstream body, decoded with charset, throws
RewriteThrows(w, charset) ==
    RewriteBody(Decode(PlainOf(w), charset), hnd[Rx].targetUrl, ProxyBaseUrl,
                Contains(w.headers.contentType, "text/html")).threw

\* the Content-Type names no charset, or one that Buffer does not know
CharsetUnusable(contentType) ==
    \/ CharsetMatch(contentType) = Absent
    \/ ToLower(CharsetMatch(contentType)) \notin BufferEncodings

RECURSIVE AsciiOf(_)
\* the bytes (or characters) of s in the ASCII range, in order
AsciiOf(s) ==
    IF Len(s) <= 1
    THEN (IF s \in HighBytes \cup {XFFFD} THEN "" ELSE s)
    ELSE AsciiOf(Sub(s, 1, Len(s) \div 2)) \o AsciiOf(From(s, Len(s) \div 2 + 1))

\* C18: a text response whose Content-Type has no charset parameter, or one
\* naming a charset the decoder does not support, is handled as utf-8: when
\* its body decompresses and none of its links makes the rewriter throw, the
\* request does not fail, the body is rewritten and emitted, and the bytes of
\* the ASCII range are those the rewriter left: decoding and re-encoding
\* change none of them
C18_CharsetFallback ==
    (/\ Delivered
     /\ IsTextual(wire.headers.contentType)
     /\ CharsetUnusable(wire.headers.contentType)
     /\ ~DecodeFails(wire)
     /\ ~RewriteThrows(wire, "utf-8"))
       => /\ res[Rx].via = "rewritten"
          /\ res[Rx].status = wire.status
          /\ res[Rx].body = Encode(RewrittenText(wire, "utf-8"), "utf-8")
          /\ AsciiOf(Decode(PlainOf(wire), "utf-8")) = AsciiOf(PlainOf(wire))
          /\ AsciiOf(res[Rx].body) = AsciiOf(RewrittenText(wire, "utf-8"))

\* a page declared iso-8859-1, which Buffer does not know, with a latin1 e
\* acute: read as utf-8 the byte became U+FFFD, the link was rewritten
C18_Witness ==
    /\ Delivered
    /\ wire.headers.contentType = "text/html; charset=iso-8859-1"
    /\ Contains(PlainOf(wire), "caf" \o XE9)
    /\ res[Rx].via = "rewritten"
    /\ Contains(res[Rx].body, "caf" \o XEF \o XBF \o XBD \o "</a>")
    /\ Contains(res[Rx].body, "<a href='" \o ProxyBaseUrl)

\* the proxied form of a link of the page the exchange fetched
ProxiedLink(link) == ProxiedLocation(link, hnd[Rx].targetUrl)

\* the page of the exchange has a link that new URL() rejects, https: on an
\* http page, and after it one that resolves
HasMalformedLink(w) ==
    /\ IsTextual(w.headers.contentType)
    /\ ~DecodeFails(w)
    /\ Contains(PlainOf(w), "<a href='https:'>")
    /\ Contains(PlainOf(w), "<a href='/y'>")

\* C19: when resolving one matched link throws, only that match is left as
\* it was in the input; the other matches of the body are rewritten and the
\* response is emitted on the rewritten-text path, not on the fallback
C19_PerMatchFailOpen ==
    (Delivered /\ HasMalformedLink(wire))
       => /\ res[Rx].via = "rewritten"
          /\ Contains(res[Rx].body, "<a href='https:'>")
          /\ Contains(res[Rx].body, "<a href='" \o ProxiedLink("/y") \o "'>")

\* C20: no stage changes the upstream response's headers or body in place,
\* and the headers and the body that the fallback emits are those the
\* upstream sent, its Location value and its body bytes included
C20_UpstreamUntouched ==
    /\ proxyRes.headers = wire.headers
    /\ proxyRes.body = wire.body
    /\ (pc[Rx] = "done" /\ res[Rx].via = "fallback")
          => /\ res[Rx].headers = wire.headers
             /\ res[Rx].body = wire.body


(***************************************************************************)
(* Properties of the stages, of concurrent requests and of the flags       *)
(***************************************************************************)
\* C21: the stages run in the order Validating, Gating, Fetching: a 403 is
\* given only to a request that has passed URL validation, a request whose
\* URL is missing is answered "No URL provided" and one whose URL does not
\* parse "Invalid URL format", both with a 400
C21_StageOrder ==
    \A r \in Reqs :
       pc[r] = "done" =>
          /\ res[r].status = 403
                => hnd[r].gated /\ ParseURL(hnd[r].targetUrl, NoBase).ok
          /\ res[r].status = 400 /\ res[r].message = "No URL provided"
                => hnd[r].targetUrl \in {Absent, ""}
          /\ res[r].status = 400 /\ res[r].message = "Invalid URL format"
                => /\ hnd[r].targetUrl \notin {Absent, ""}
                   /\ ~ParseURL(hnd[r].targetUrl, NoBase).ok

\* the steps the server takes by itself in an exchange: the continuations
\* of logProxyRequest, which the event loop runs once the storage call has
\* returned.  The head, the end and the failure of the upstream response are
\* events from outside; the options given to the proxy set no timeout and no
\* proxyTimeout, so no timer of the server is among the steps
ServerStep == LogLookup(Rx) \/ LogWrite(Rx)

SpecResponseLive == InitResponse /\ [][NextResponse]_vars /\ WF_vars(ServerStep)

\* C22: every GET proxy request eventually reaches a terminal state: a fetch
\* whose upstream never responds is ended by a timeout, as an error answered
\* with a 500
C22_FetchTerminates == (pc[Rx] = "fetching") ~> (pc[Rx] = "done")

\* what request r asked for, from the request itself
OwnUrl(r) == ParseURL(req[r].url, NoBase)
OwnHideReferer(r) == FlagOf(req[r].method, req[r].hideRefererIn)
OwnRemoveCookies(r) == FlagOf(req[r].method, req[r].removeCookiesIn)

\* the upstream request and the response of r are made from r's own values
OwnValuesApplied(r) ==
    /\ hnd[r].derived
          => /\ hnd[r].targetUrl = req[r].url
             /\ hnd[r].hideReferer = OwnHideReferer(r)
             /\ hnd[r].removeCookiesOption = OwnRemoveCookies(r)
    /\ upstream[r].started
          => /\ upstream[r].target = OriginOf(OwnUrl(r))
             /\ upstream[r].path = PathAndSearch(OwnUrl(r))
             /\ upstream[r].headers
                   = onProxyReq(req[r].headers, OwnHideReferer(r), OwnRemoveCookies(r))
    /\ (pc[r] = "done" /\ res[r].via = "rewritten")
          => res[r].body = "<a href=\"" \o ProxiedLocation("/x", req[r].url) \o "\">"
    /\ (pc[r] = "done" /\ res[r].via \in {"passthrough", "fallback"})
          => (res[r].headers.setCookie = Absent) = OwnRemoveCookies(r)

\* a step that is not a step of request r leaves what belongs to r alone
OthersLeftAlone ==
    \A r \in Reqs :
       pc'[r] = pc[r]
          => /\ req'[r] = req[r]
             /\ hnd'[r] = hnd[r]
             /\ upstream'[r] = upstream[r]
             /\ res'[r] = res[r]

\* C23: under any interleaving of concurrent proxy requests the header
\* stripping, the rewrite base and the proxy base URL applied to a request
\* are those of that request: its hideReferer, removeCookies and target
\* values are never read or overwritten on behalf of another request
C23_RequestIsolation ==
    /\ [](\A r \in Reqs : OwnValuesApplied(r))
    /\ [][OthersLeftAlone]_vars

\* two requests are in flight at once, to different origins and with
\* different flags, each with the upstream request it asked for
C23_Witness ==
    /\ pc[1] = "fetching"
    /\ pc[2] = "fetching"
    /\ upstream[1].target = "ftp://f.test"
    /\ upstream[2].target = "http://a.test"
    /\ hnd[1].hideReferer /\ ~hnd[1].removeCookiesOption
    /\ ~hnd[2].hideReferer /\ hnd[2].removeCookiesOption
    /\ upstream[1].headers["referer"] = Absent
    /\ upstream[1].headers["cookie"] # Absent
    /\ upstream[2].headers["referer"] # Absent
    /\ upstream[2].headers["cookie"] = Absent

\* the identity key of a visitors row
IdentityOf(row) == <<row.ipAddress, row.fingerprint>>

\* C24: after any sequence and interleaving of requests the visitors table
\* holds at most one record per identity key (IP address, fingerprint): the
\* find-or-create steps of the tracking middleware and of logProxyRequest
\* insert no second record for an identity that concurrent requests share
C24_OneRecordPerIdentity ==
    \A i, j \in 1..Len(visitors) :
       IdentityOf(visitors[i]) = IdentityOf(visitors[j]) => i = j

\* two requests with the same address and fingerprint are in flight at once;
\* the four find-or-create calls they made left one record, which both log
\* entries name
C24_Witness ==
    /\ pc[1] = "fetching"
    /\ pc[2] = "fetching"
    /\ req[1].fingerprint = "fpA"
    /\ req[2].fingerprint = "fpA"
    /\ Len(visitors) = 1
    /\ IdentityOf(visitors[1]) = <<ClientIp, "fpA">>
    /\ Len(proxyRequests) = 2
    /\ proxyRequests[1].visitorId = 1
    /\ proxyRequests[2].visitorId = 1

\* the table holds a blocked record with exactly the identity of request r
ExactBlocked(r) ==
    \E i \in 1..Len(visitors) :
       /\ IdentityOf(visitors[i]) = <<req[r].ip, req[r].fingerprint>>
       /\ visitors[i].blocked

\* C25: the gate decision for a request depends only on the blocked flag of
\* the visitor record with exactly its identity (ip, fingerprint): right
\* after the middleware or the handler has read the table, the request is
\* taken as blocked exactly when the record of its own identity is blocked
C25_ExactIdentityGate ==
    \A r \in Reqs :
       /\ pc[r] = "tracked" => (hnd[r].trackBlocked <=> ExactBlocked(r))
       /\ (pc[r] = "log" /\ hnd[r].gated /\ hnd[r].logStatus # "error")
             => (hnd[r].gateBlocked <=> ExactBlocked(r))

\* the first link of the delivered page, a page of the exchange starting
\* with <a href='
FirstLink(body) == LinkAt(body, 10, LinkEnd(body, "'", 10))

\* the value the GET handler derives for a flag when the browser requests link
FlagOfLink(link, flag) == FlagOf("GET", QueryGet(BrowserQuery(link), flag))

\* C26: privacy flags persist across navigation: every proxied link emitted
\* for a page fetched with removeCookies (or hideReferer) set, in the body
\* or as Location, leads to a GET that is handled with the same flag set
C26_FlagsPersist ==
    (Delivered /\ hnd[Rx].removeCookiesOption)
       => /\ (res[Rx].via = "rewritten" /\ StartsWith(FirstLink(res[Rx].body), ProxyBaseUrl))
                => FlagOfLink(FirstLink(res[Rx].body), "removeCookies")
          /\ (res[Rx].headers.location # Absent
                /\ StartsWith(res[Rx].headers.location, ProxyBaseUrl))
                => FlagOfLink(res[Rx].headers.location, "removeCookies")

\* the content of the upstream body: the bytes as they are when no
\* Content-Encoding is declared, the decompressed ones otherwise
ContentOf(w) == IF w.headers.contentEncoding = Absent THEN w.body ELSE w.plain

\* the rewritten text of the content of w, as bytes again
RewrittenContent(w, charset) ==
    Encode(RewriteBody(Decode(ContentOf(w), charset), hnd[Rx].targetUrl, ProxyBaseUrl,
                       Contains(w.headers.contentType, "text/html")).text, charset)

\* C27: on every delivered response the Content-Encoding header describes
\* the body sent: with the header the body is the encoded body of the
\* upstream, without it the body is in plain form (the upstream's plain body,
\* or the rewritten text of the decompressed content), and a Content-Length
\* header gives the length of the body sent
C27_EncodingMatchesBody ==
    Delivered
       => /\ res[Rx].headers.contentEncoding # Absent
                => /\ res[Rx].headers.contentEncoding = wire.headers.contentEncoding
                   /\ res[Rx].body = wire.body
          /\ res[Rx].headers.contentEncoding = Absent
                => IF res[Rx].via = "rewritten"
                   THEN /\ ContentOf(wire) # Absent
                        /\ res[Rx].body
                              = RewrittenContent(wire, CharsetOf(wire.headers.contentType))
                   ELSE /\ wire.headers.contentEncoding = Absent
                        /\ res[Rx].body = wire.body
          /\ res[Rx].headers.contentLength # -1
                => res[Rx].headers.contentLength = Len(res[Rx].body)

\* C28: a response emitted on the rewritten-text path carries the upstream
\* headers other than Content-Length, Content-Encoding and Transfer-Encoding
\* with their upstream values: the Content-Type, the Set-Cookie unless
\* removeCookies is set, and a Location (in its upstream or its proxied
\* form) when the upstream sent one
C28_TextPathKeepsHeaders ==
    (Delivered /\ res[Rx].via = "rewritten")
       => /\ res[Rx].headers.contentType = wire.headers.contentType
          /\ res[Rx].headers.setCookie
                = (IF hnd[Rx].removeCookiesOption THEN Absent ELSE wire.headers.setCookie)
          /\ (res[Rx].headers.location = Absent) = (wire.headers.location = Absent)

\* C29: rewriting a srcset attribute changes only the URL tokens of its
\* candidates: the text before the value, with the opening quote, and the
\* text after it, with the closing quote, are those of the input
C29_SrcsetFrameKept ==
    (out.done /\ ~out.threw /\ page.attr = "srcset")
       => /\ StartsWith(out.text, PagePrefix(page.attr, page.quote))
          /\ Len(out.text) >= Len(page.body)
          /\ From(out.text, Len(out.text) - Len(PageSuffix(page.attr, page.quote)) + 1)
                = PageSuffix(page.attr, page.quote)

\* C30: the hideReferer and removeCookies values stored in the activity-log
\* entry of a request equal the flag values the handler applied to that
\* request, for a GET (flags of the query string) as for a POST (flags of
\* the body)
C30_LoggedFlagsApplied ==
    \A i \in 1..Len(proxyRequests) :
       hnd[proxyRequests[i].rid].derived
          => /\ proxyRequests[i].hideReferer = hnd[proxyRequests[i].rid].hideReferer
             /\ proxyRequests[i].removeCookies
                   = hnd[proxyRequests[i].rid].removeCookiesOption

====
